---- MODULE Spec2Model ----
(***************************************************************************)
(* The event-processing workers of Enterprise-Event-Analytics: the         *)
(* ingestion endpoint that pushes envelopes on the Redis list              *)
(* events:{type}, and the three workers (lead scoring, blockchain events,  *)
(* chat analysis) that pop them, build a result, write it to the Redis     *)
(* cache and mirror it into the Neo4j graph.                               *)
(*                                                                         *)
(* One behaviour follows the list, the cache entries and the graph nodes   *)
(* of one worker type (wtype, chosen initially): the three types share no  *)
(* list, no cache key (the key carries the worker type) and no node label. *)
(* One instance of that worker type runs from the start, a second one may  *)
(* be started beside it.                                                   *)
(***************************************************************************)
EXTENDS Integers, Sequences, FiniteSets, TLC

VARIABLES
    wtype,      \* the worker type whose list, cache keys and nodes are followed
    queue,      \* the Redis list events:{wtype}; index 1 is the left end
    cache,      \* Redis keys processed:{wtype}:{id}: key -> [value, expires]
    graph,      \* Neo4j nodes merged by the workers: node id -> properties
    now,        \* the clock, in whole seconds (int(datetime.utcnow().timestamp()))
    proc,       \* per instance: "absent" (not started), "running" or "killed"
    pc,         \* per instance: where listen_and_process stands
    cur,        \* per instance: the item popped and not yet finished
    res,        \* per instance: the result dict process_event has built
    wakeAt,     \* per instance: when asyncio.sleep(5) ends
    pushed,     \* the payloads pushed so far, in order: item n carries pushed[n]
    trace,      \* per item serial: the steps the code ran for it, in order
    popLog,     \* per instance: the serials it popped, in order
    returnLog,  \* per instance: what process_event returned, in order
    writeLog,   \* the successful SETEX calls, in order
    faults,     \* number of disturbances so far: failures injected, instances
                \* started or killed
    ticks,      \* number of clock advances so far
    redis_client, \* core.auth's module-level client: "unset" until the
                \* module is imported, then "client" or "none"
    tokens,     \* the JWTs issued so far
    blacklist,  \* Redis keys blacklist:{token}: token -> when the key expires
    verifyLog   \* the calls of verify_token so far, in order

authVars == <<redis_client, tokens, blacklist, verifyLog>>

vars == <<wtype, queue, cache, graph, now, proc, pc, cur, res, wakeAt,
          pushed, trace, popLog, returnLog, writeLog, faults, ticks, authVars>>

---------------------------------------------------------------------------
(* Bounds of the model. *)

MaxEvents == 2
MaxFaults == 1
MaxTicks == 1

(* Program constants. *)

CACHE_TTL == 3600
BACKOFF_SECONDS == 5
DEFAULT_SCORE == 50
BASE_SCORE == 50

Instances == {"w1", "w2"}
WorkerTypes == {"lead_scoring", "blockchain_events", "chat_analysis"}

\* The clock advances by one second or by a whole TTL.
TimeSteps == {1, CACHE_TTL}

NoItem == [n |-> 0, body |-> [json |-> "none"]]
NoResult == [type |-> "none"]

---------------------------------------------------------------------------
(* Strings.  The code tests substrings and lower-cases; the strings of the *)
(* model are a finite universe and both are tabulated over it.             *)

Lower(s) ==
    CASE s = "VP of Sales" -> "vp of sales"
      [] s = "1000+ Employees" -> "1000+ employees"
      [] s = "Medium" -> "medium"
      [] s = "Medium Enterprise" -> "medium enterprise"
      [] OTHER -> s

\* The needles of fallback_scoring that occur in (lower-cased) s.
SubstringsOf(s) ==
    CASE s = "ann@gmail.com" -> {"gmail.com"}
      [] s = "dean@uni.edu" -> {".edu"}
      [] s = "1000+ employees" -> {"1000+"}
      [] s = "vp of sales" -> {"vp"}
      [] s = "medium" -> {"medium"}
      [] s = "medium enterprise" -> {"medium", "enterprise"}
      [] OTHER -> {}

Contains(s, needle) == needle \in SubstringsOf(s)

ContainsAny(s, needles) == \E x \in needles : Contains(s, x)

\* {}
EmptyDict == [k \in {} |-> ""]

\* dict.get(key, default)
Get(d, key, default) == IF key \in DOMAIN d THEN d[key] ELSE default

\* Python truthiness of a string value.
Truthy(v) == v /= ""

Max(a, b) == IF a >= b THEN a ELSE b
Min(a, b) == IF a <= b THEN a ELSE b

---------------------------------------------------------------------------
(* Deviations from the code.  Each one is what the code does NOT do; the   *)
(* properties below tell the code from them.                               *)

\* An except branch of process_event that raises on every input.
AlwaysRaises(body) == TRUE

\* A loop that ends when an exception reaches it.
LoopExits == "exited"

\* A loop that sleeps after a JSONDecodeError as well.
DecodeErrorSleeps == "backoff"

\* A loop that a JSONDecodeError ends: the exception leaves the while loop.
DecodeErrorEndsLoop == "exited"

\* A json.loads that never raises.
DecodesAnything(body) == TRUE

\* A producer that pushes on the right, where the workers pop.
rpush(q, item) == q \o <<item>>

\* A pop that leaves the item on the list.
brpeek(q) == [item |-> q[Len(q)], rest |-> q]

\* A validator that accepts every data dict.
AcceptsAnything(wt, data) == TRUE

\* A cache key outside the processed:{worker_type}:{id} scheme.
OtherKeyScheme(wt, id) == <<"errors", wt, id>>

\* A cache key that leaves the result id out.
KeyPerType(wt, id) == <<"processed", wt>>

\* A cache write that keeps the value a key already has (SET ... NX).
setnx(c, key, ttl, value, t) ==
    IF key \in DOMAIN c THEN c ELSE (key :> [value |-> value, expires |-> t + ttl]) @@ c

---------------------------------------------------------------------------
(* Per worker type: names. *)

IdPrefix(wt) ==
    CASE wt = "lead_scoring" -> "lead"
      [] wt = "blockchain_events" -> "blockchain"
      [] wt = "chat_analysis" -> "chat"

SuccessType(wt) ==
    CASE wt = "lead_scoring" -> "lead_scoring"
      [] wt = "blockchain_events" -> "blockchain_event"
      [] wt = "chat_analysis" -> "chat_analysis"

ErrorType(wt) ==
    CASE wt = "lead_scoring" -> "lead_scoring_error"
      [] wt = "blockchain_events" -> "blockchain_error"
      [] wt = "chat_analysis" -> "chat_analysis_error"

WorkerName(wt) ==
    CASE wt = "lead_scoring" -> "lead_scoring_worker"
      [] wt = "blockchain_events" -> "blockchain_worker"
      [] wt = "chat_analysis" -> "chat_analysis_worker"

\* f"{prefix}_{int(datetime.utcnow().timestamp())}"
SuccessId(wt, t) == [prefix |-> IdPrefix(wt), infix |-> "", ts |-> t]

\* f"{prefix}_error_{int(datetime.utcnow().timestamp())}"
ErrorId(wt, t) == [prefix |-> IdPrefix(wt), infix |-> "error", ts |-> t]

\* f"processed:{self.worker_type}:{data['id']}"
CacheKey(wt, id) == <<"processed", wt, id>>

---------------------------------------------------------------------------
(* Results.  A result is the dict the worker builds: a record whose        *)
(* fields are the dict's keys, so that 'error' in result is                *)
(* "error" \in DOMAIN result.                                              *)

\* str(e) of the exception process_event caught.
Err(msg, arg) == [msg |-> msg, arg |-> arg]

\* The except branch of process_event: the error_data dict.
error_data(wt, env, e, t) ==
    [id |-> ErrorId(wt, t),
     type |-> ErrorType(wt),
     error |-> e,
     original_data |-> Get(env, "data", EmptyDict),
     processed_at |-> t,
     worker |-> WorkerName(wt)]

IsErrorResult(r) == r.type \in {ErrorType(wt) : wt \in WorkerTypes}
IsProcessedResult(r) == r.type \in {SuccessType(wt) : wt \in WorkerTypes}

---------------------------------------------------------------------------
(* Lead scoring pipeline. *)

\* A text as extract_score_from_analysis sees it.  kind: what json.loads
\* makes of it ("json": an object; "json_other": an array, a string, a
\* number, null; "text": JSONDecodeError).  has_score: the object has the
\* key "score"; int_ok: int() converts its value; score: the converted
\* value.  regex: the pattern "score":\s*(\d+) matches somewhere in the text;
\* regex_score: the digits of its first match.
Text(kind, has_score, int_ok, score, regex, regex_score, category) ==
    [kind |-> kind, has_score |-> has_score, int_ok |-> int_ok, score |-> score,
     regex |-> regex, regex_score |-> regex_score, category |-> category]

\* The call raised: there is no text.
NoText == Text("exception", FALSE, FALSE, 0, FALSE, 0, "")

\* json.dumps of an object with "score": x and "category": c.
ScoredObject(x, c) == Text("json", TRUE, TRUE, x, x >= 0, IF x >= 0 THEN x ELSE 0, c)

\* Outcomes of self.ai_client.chat.completions.create(...): the call raises,
\* or returns the JSON object asked for.
AIOutcomes == {NoText, ScoredObject(85, "hot")}

\* A categorisation whose thresholds are strict.
categorize_strict(score) ==
    IF score > 80 THEN "hot" ELSE IF score > 60 THEN "warm" ELSE "cold"

categorize_lead(score) ==
    IF score >= 80 THEN "hot" ELSE IF score >= 60 THEN "warm" ELSE "cold"

EmailPoints(email) ==
    IF ContainsAny(email, {"gmail.com", "yahoo.com", "hotmail.com"}) THEN -10
    ELSE IF ContainsAny(email, {".edu", ".gov", ".org"}) THEN 15
    ELSE 5

SizePoints(company_size) ==
    IF Contains(company_size, "enterprise") \/ Contains(company_size, "1000+") THEN 20
    ELSE IF Contains(company_size, "medium") \/ Contains(company_size, "100-1000") THEN 10
    ELSE 0

TitlePoints(title) ==
    IF ContainsAny(title, {"ceo", "cto", "vp", "director", "manager"}) THEN 15 ELSE 0

SourcePoints(source) ==
    IF source \in {"referral", "linkedin", "conference"} THEN 10
    ELSE IF source \in {"cold_email", "advertisement"} THEN -5
    ELSE 0

Clamp(lo, hi, x) == Max(lo, Min(hi, x))

\* A scorer that leaves out the clamp.
FallbackScoreUnclamped(data) ==
    BASE_SCORE
    + EmailPoints(Lower(Get(data, "email", "")))
    + SizePoints(Lower(Get(data, "company_size", "")))
    + TitlePoints(Lower(Get(data, "title", "")))
    + SourcePoints(Lower(Get(data, "source", "")))

\* The score fallback_scoring computes.
FallbackScore(data) ==
    Clamp(0, 100,
          BASE_SCORE
          + EmailPoints(Lower(Get(data, "email", "")))
          + SizePoints(Lower(Get(data, "company_size", "")))
          + TitlePoints(Lower(Get(data, "title", "")))
          + SourcePoints(Lower(Get(data, "source", ""))))

\* A data value that is a JSON number (json.loads gives an int, no str).
JsonNumbers == {"#500"}
IsStr(v) == v \notin JsonNumbers

\* fallback_scoring raises: data.get(field, '').lower() on a value that is
\* no string.
FallbackRaises(data) ==
    \E f \in {"email", "company_size", "title", "source"} :
      f \in DOMAIN data /\ ~IsStr(data[f])

\* The JSON text fallback_scoring returns.
fallback_scoring(data) ==
    LET score == FallbackScore(data) IN
    ScoredObject(score,
                 IF score >= 80 THEN "hot" ELSE IF score >= 60 THEN "warm" ELSE "cold")

\* analyze_lead_with_ai: the AI's text, or the fallback when the call raises.
analyze_lead_with_ai(data, ai) ==
    IF ai.kind = "exception" THEN fallback_scoring(data) ELSE ai

\* analyze_lead_with_ai raises: the call failed and the fallback it runs in
\* its except clause raised in turn.
AnalyzeRaises(data, ai) == ai.kind = "exception" /\ FallbackRaises(data)

\* An extraction that gives up when the try body raises.
extract_score_without_regex(ai_analysis) ==
    IF ai_analysis.kind = "json" /\ ai_analysis.has_score /\ ai_analysis.int_ok
    THEN ai_analysis.score
    ELSE DEFAULT_SCORE

\* try: int(json.loads(text).get('score', 50)); except (anything: the
\* JSONDecodeError of json.loads, the AttributeError of .get on what is no
\* dict, the ValueError or TypeError of int): the regex; else 50.
extract_score_from_analysis(ai_analysis) ==
    IF ai_analysis.kind = "json" /\ ~ai_analysis.has_score
    THEN DEFAULT_SCORE
    ELSE IF ai_analysis.kind = "json" /\ ai_analysis.int_ok
    THEN ai_analysis.score
    ELSE IF ai_analysis.regex
    THEN ai_analysis.regex_score
    ELSE DEFAULT_SCORE

get_recommendations(category) ==
    CASE category = "hot" ->
           <<"Contact within 1 hour", "Schedule demo call",
             "Send personalized proposal", "Assign to senior sales rep">>
      [] category = "warm" ->
           <<"Follow up within 24 hours", "Send relevant case studies",
             "Schedule discovery call", "Add to nurture campaign">>
      [] OTHER ->
           <<"Add to long-term nurture sequence", "Send educational content",
             "Follow up in 1 week", "Qualify budget and timeline">>

\* all(field in event_data and event_data[field] for field in required_fields)
RequiredPresentAndTruthy(data, fields) ==
    \A f \in fields : f \in DOMAIN data /\ Truthy(data[f])

\* The try body of LeadScoringWorker.process_event after validation.
LeadProcessed(env, ai, t) ==
    LET data == env["data"]
        ai_analysis == analyze_lead_with_ai(data, ai)
        lead_score == extract_score_from_analysis(ai_analysis)
        category == categorize_lead(lead_score)
    IN [id |-> SuccessId("lead_scoring", t),
        type |-> "lead_scoring",
        original_data |-> data,
        ai_analysis |-> ai_analysis,
        lead_score |-> lead_score,
        category |-> category,
        processed_at |-> t,
        processed_by |-> Get(env, "user_id", 0),
        worker |-> "lead_scoring_worker",
        recommendations |-> get_recommendations(category)]

\* The analysis steps the lead pipeline runs for a valid lead.
LeadSteps(ai) ==
    IF ai.kind = "exception" THEN <<"ai_call", "fallback_scoring">> ELSE <<"ai_call">>


---------------------------------------------------------------------------
(* Blockchain event pipeline.  Amounts are whole numbers; a floor price is *)
(* kept in tenths and a token price in cents (max(0.1, h % 10) and         *)
(* max(0.01, (h % 1000) / 100)), so that the arithmetic is exact.  Python  *)
(* randomises hash() of a string per process: the hash of the collection   *)
(* or token is an input: hs.a is the hash of the first string an analyzer   *)
(* hashes and hs.b that of the second.                                     *)

Hashes == {3, 250}

\* float(x): the strings of the model that are numbers, and their values.
IsNumber(s) == s \in {"0", "1", "2.4", "3", "4.5", "4.5001", "15", "250000"}

\* float(x) of a price, in ten-thousandths.
PriceE4(s) ==
    CASE s = "0" -> 0
      [] s = "1" -> 10000
      [] s = "2.4" -> 24000
      [] s = "3" -> 30000
      [] s = "4.5" -> 45000
      [] s = "4.5001" -> 45001
      [] s = "15" -> 150000

NumOf(s) ==
    CASE s = "3" -> 3
      [] s = "15" -> 15
      [] s = "250000" -> 250000
      [] OTHER -> 0

\* A JSON array or object where a string is expected: hash() raises.
Unhashable(v) == v = "[array]"

\* Lookups that answer as if nothing had failed.
market_data_unguarded(collection, h) ==
    [floor_tenths |-> Max(1, (h % 10) * 10),
     volume_24h |-> Max(100, h % 10000),
     trend |-> <<"bullish", "bearish", "neutral">>[(h % 3) + 1]]

get_market_data(collection, h) ==
    IF Unhashable(collection)
    THEN [floor_tenths |-> 0, volume_24h |-> 0, trend |-> "neutral"]
    ELSE [floor_tenths |-> Max(1, (h % 10) * 10),
          volume_24h |-> Max(100, h % 10000),
          trend |-> <<"bullish", "bearish", "neutral">>[(h % 3) + 1]]

get_token_info(token, h) ==
    IF Unhashable(token)
    THEN [price_cents |-> 0, name |-> "Unknown"]
    ELSE [price_cents |-> Max(1, h % 1000), name |-> "Token"]

get_transaction_details(signature, h) ==
    IF Unhashable(signature)
    THEN [status |-> "unknown"]
    ELSE [block_height |-> h % 1000000, status |-> "confirmed"]

\* A premium is the fraction num/den of a percentage (den > 0).
Premium(price_e4, floor_tenths) ==
    IF floor_tenths > 0
    THEN [num |-> (price_e4 - floor_tenths * 1000) * 100, den |-> floor_tenths * 1000]
    ELSE [num |-> 0, den |-> 1]

\* round(premium_percentage, 2), in hundredths (den > 0).
RoundCenti(p) ==
    LET q == (100 * p.num) \div p.den
        rest == (100 * p.num) % p.den
    IN IF 2 * rest >= p.den THEN q + 1 ELSE q

\* A categorisation whose premium threshold is inclusive.
categorize_price_inclusive(p) ==
    IF p.num >= 50 * p.den THEN "premium"
    ELSE IF p.num > 0 THEN "above_floor"
    ELSE IF p.num > (-20) * p.den THEN "near_floor"
    ELSE "below_floor"

categorize_price(p) ==
    IF p.num > 50 * p.den THEN "premium"
    ELSE IF p.num > 0 THEN "above_floor"
    ELSE IF p.num > (-20) * p.den THEN "near_floor"
    ELSE "below_floor"

generate_nft_insights(price_e4, p) ==
    (IF p.num > 100 * p.den
       THEN <<"Exceptional premium sale - potential rare trait">>
     ELSE IF p.num > 50 * p.den
       THEN <<"High premium sale - strong buyer interest">>
     ELSE IF p.num < (-10) * p.den
       THEN <<"Below floor sale - potential distressed seller">>
     ELSE <<>>)
    \o (IF price_e4 > 10 * 10000
          THEN <<"High-value transaction - monitor for market impact">>
          ELSE <<>>)

process_nft_sale(data, hs, t) ==
    LET raw == Get(data, "price", "0") IN
    IF ~IsNumber(raw)
    THEN [sale_id |-> [prefix |-> "nft_sale", infix |-> "error", ts |-> t],
          error |-> Err("could not convert string to float", raw),
          collection |-> Get(data, "collection", "Unknown"),
          price |-> raw]
    ELSE
      LET price == PriceE4(raw)
          market_data == get_market_data(Get(data, "collection", "Unknown"), hs.a)
          signature == Get(data, "signature", "")
          premium == Premium(price, market_data.floor_tenths)
      IN [sale_id |-> [prefix |-> "nft_sale", infix |-> "", ts |-> t],
          collection |-> Get(data, "collection", "Unknown"),
          price |-> raw,
          signature |-> signature,
          transaction_details |->
              IF Truthy(signature)
              THEN get_transaction_details(signature, hs.b)
              ELSE [block_height |-> 0, status |-> ""],
          market_data |-> market_data,
          analysis |-> [floor_tenths |-> market_data.floor_tenths,
                        premium_percentage |-> RoundCenti(premium),
                        price_category |-> categorize_price(premium),
                        market_trend |-> market_data.trend,
                        volume_24h |-> market_data.volume_24h],
          insights |-> generate_nft_insights(price, premium)]

analyze_transfer_pattern(amount, h) ==
    [transfer_type |-> "peer_to_peer",
     amount_category |->
         IF amount > 1000 THEN "large" ELSE IF amount > 100 THEN "medium" ELSE "small",
     risk_score |-> Min(100, Max(0, h % 100)),
     pattern |-> "normal"]

generate_transfer_insights(usd_cents, analysis) ==
    (IF usd_cents > 100000 * 100
       THEN <<"Large transfer detected - potential whale movement">> ELSE <<>>)
    \o (IF analysis.risk_score > 80
          THEN <<"High risk transfer - review for compliance">> ELSE <<>>)

process_token_transfer(data, hs, t) ==
    LET raw == Get(data, "amount", "0") IN
    IF ~IsNumber(raw)
    THEN [transfer_id |-> [prefix |-> "token_transfer", infix |-> "error", ts |-> t],
          error |-> Err("could not convert string to float", raw),
          token |-> Get(data, "token", "Unknown"),
          amount |-> raw]
    ELSE
      LET amount == NumOf(raw)
          token_info == get_token_info(Get(data, "token", "Unknown"), hs.a)
          usd_cents == IF token_info.price_cents /= 0
                       THEN amount * token_info.price_cents ELSE 0
          transfer_analysis == analyze_transfer_pattern(amount, hs.b)
      IN [transfer_id |-> [prefix |-> "token_transfer", infix |-> "", ts |-> t],
          amount |-> raw,
          token |-> Get(data, "token", "Unknown"),
          token_info |-> token_info,
          usd_value_cents |-> usd_cents,
          analysis |-> transfer_analysis,
          insights |-> generate_transfer_insights(usd_cents, transfer_analysis)]

categorize_swap_size(usd_cents) ==
    IF usd_cents > 100000 * 100 THEN "whale"
    ELSE IF usd_cents > 10000 * 100 THEN "large"
    ELSE IF usd_cents > 1000 * 100 THEN "medium"
    ELSE "small"

\* slippage > 5, for slippage = (in - out) / in * 100 when in > 0, else 0
HighSlippage(usd_in, usd_out) == usd_in > 0 /\ (usd_in - usd_out) * 100 > 5 * usd_in

generate_swap_insights(usd_in, usd_out) ==
    (IF HighSlippage(usd_in, usd_out)
       THEN <<"High slippage detected - large trade or low liquidity">> ELSE <<>>)
    \o (IF usd_in > 50000 * 100
          THEN <<"Large swap - potential market impact">> ELSE <<>>)

process_defi_swap(data, hs, t) ==
    LET raw_in == Get(data, "amount_in", "0")
        raw_out == Get(data, "amount_out", "0")
    IN
    IF ~IsNumber(raw_in) \/ ~IsNumber(raw_out)
    THEN [swap_id |-> [prefix |-> "defi_swap", infix |-> "error", ts |-> t],
          error |-> Err("could not convert string to float",
                        IF ~IsNumber(raw_in) THEN raw_in ELSE raw_out),
          dex |-> Get(data, "dex", "Unknown")]
    ELSE
      LET token_in_info == get_token_info(Get(data, "token_in", "Unknown"), hs.a)
          token_out_info == get_token_info(Get(data, "token_out", "Unknown"), hs.b)
          usd_in == NumOf(raw_in) * token_in_info.price_cents
          usd_out == NumOf(raw_out) * token_out_info.price_cents
      IN [swap_id |-> [prefix |-> "defi_swap", infix |-> "", ts |-> t],
          amount_in |-> raw_in,
          amount_out |-> raw_out,
          dex |-> Get(data, "dex", "Unknown"),
          token_in_info |-> token_in_info,
          token_out_info |-> token_out_info,
          analysis |-> [usd_value_in_cents |-> usd_in,
                        usd_value_out_cents |-> usd_out,
                        slippage |-> IF usd_in > 0
                                     THEN [num |-> (usd_in - usd_out) * 100, den |-> usd_in]
                                     ELSE [num |-> 0, den |-> 1],
                        swap_category |-> categorize_swap_size(usd_in)],
          insights |-> generate_swap_insights(usd_in, usd_out)]

KnownEventTypes == {"nft_sale", "token_transfer", "defi_swap"}

\* A dispatch that sends every recognised type to the NFT sale analyzer.
AlwaysNftSale(data, hs, t) == process_nft_sale(data, hs, t)

\* The dispatch of BlockchainWorker.process_event on data["event_type"].
SubAnalyzer(data, hs, t) ==
    LET event_type == Get(data, "event_type", "unknown") IN
    CASE event_type = "nft_sale" -> process_nft_sale(data, hs, t)
      [] event_type = "token_transfer" -> process_token_transfer(data, hs, t)
      [] event_type = "defi_swap" -> process_defi_swap(data, hs, t)

\* processed_data.update({...}): the metadata laid over the sub-analyzer's dict.
BlockchainProcessed(env, hs, t) ==
    LET data == env["data"] IN
    [id |-> SuccessId("blockchain_events", t),
     type |-> "blockchain_event",
     original_data |-> data,
     processed_at |-> t,
     processed_by |-> Get(env, "user_id", 0),
     worker |-> "blockchain_worker"] @@ SubAnalyzer(data, hs, t)

BlockchainSteps(data) == <<Get(data, "event_type", "unknown")>>


---------------------------------------------------------------------------
(* Chat analysis pipeline.  The regular expressions and character counts   *)
(* of the code are tabulated over the messages of the model.               *)

positive_words ==
    {"good", "great", "awesome", "amazing", "excellent", "fantastic",
     "wonderful", "brilliant", "outstanding", "superb", "perfect",
     "love", "like", "enjoy", "happy", "excited", "thrilled",
     "bullish", "moon", "rocket", "gem", "diamond", "hands",
     "hodl", "buy", "pump", "green", "profit", "gains",
     "best", "top", "winner", "success", "victory", "champion",
     "positive", "optimistic", "confident", "strong", "solid",
     "thank", "thanks", "grateful", "appreciate", "blessed"}

negative_words ==
    {"bad", "terrible", "awful", "horrible", "disgusting", "hate",
     "dislike", "angry", "mad", "furious", "disappointed", "sad",
     "bearish", "dump", "crash", "red", "loss", "losses",
     "scam", "fraud", "fake", "lie", "lying", "cheat",
     "worst", "bottom", "loser", "failure", "defeat", "disaster",
     "negative", "pessimistic", "worried", "concerned", "afraid",
     "panic", "fear", "scared", "anxious", "stressed", "broken"}

toxic_words ==
    {"spam", "scam", "fraud", "fake", "bot", "shill",
     "pump", "dump", "rugpull", "ponzi", "pyramid",
     "hate", "toxic", "troll", "fud", "manipulation",
     "stupid", "idiot", "moron", "dumb", "retard",
     "kill", "die", "death", "suicide", "harm"}

\* n times one word, as tokenize_message returns them.
Repeat(word, n) == [k \in 1..n |-> word]

\* Per message: len(message), tokenize_message(message), the counts of '?'
\* and '!', of @mentions, #hashtags and emojis, the number of spam_patterns
\* that match, and len(set(message.lower())).
MessageFeatures(m) ==
    CASE m = "good great amazing!!! @alice #win" ->
           [len |-> 33, words |-> <<"good", "great", "amazing", "alice", "win">>,
            q |-> 0, x |-> 3, mentions |-> 1, hashtags |-> 1, emojis |-> 0,
            patterns |-> 0, distinct |-> 18]
      [] m = "scam fraud fake" ->
           [len |-> 15, words |-> <<"scam", "fraud", "fake">>,
            q |-> 0, x |-> 0, mentions |-> 0, hashtags |-> 0, emojis |-> 0,
            patterns |-> 0, distinct |-> 11]
      \* "w xN" stands for the word w written N times, separated by blanks
      [] m = "hello x5" ->
           [len |-> 29, words |-> Repeat("hello", 5),
            q |-> 0, x |-> 0, mentions |-> 0, hashtags |-> 0, emojis |-> 0,
            patterns |-> 0, distinct |-> 5]
      [] m = "scam, hello x39" ->
           [len |-> 238, words |-> <<"scam">> \o Repeat("hello", 39),
            q |-> 0, x |-> 0, mentions |-> 0, hashtags |-> 0, emojis |-> 0,
            patterns |-> 0, distinct |-> 9]
      [] m = "scam x3, hello x97" ->
           [len |-> 596, words |-> Repeat("scam", 3) \o Repeat("hello", 97),
            q |-> 0, x |-> 0, mentions |-> 0, hashtags |-> 0, emojis |-> 0,
            patterns |-> 0, distinct |-> 9]
      [] m = "scam x7, hello x226" ->
           [len |-> 1390, words |-> Repeat("scam", 7) \o Repeat("hello", 226),
            q |-> 0, x |-> 0, mentions |-> 0, hashtags |-> 0, emojis |-> 0,
            patterns |-> 0, distinct |-> 9]
      [] m = "scam, hello x19" ->
           [len |-> 118, words |-> <<"scam">> \o Repeat("hello", 19),
            q |-> 0, x |-> 0, mentions |-> 0, hashtags |-> 0, emojis |-> 0,
            patterns |-> 0, distinct |-> 9]
      [] m = "scam x7, hello x93" ->
           [len |-> 592, words |-> Repeat("scam", 7) \o Repeat("hello", 93),
            q |-> 0, x |-> 0, mentions |-> 0, hashtags |-> 0, emojis |-> 0,
            patterns |-> 0, distinct |-> 9]
      [] m = "click here for free money, act now" ->
           [len |-> 34,
            words |-> <<"click", "here", "for", "free", "money", "act", "now">>,
            q |-> 0, x |-> 0, mentions |-> 0, hashtags |-> 0, emojis |-> 0,
            patterns |-> 3, distinct |-> 17]
      [] m = "click here for free money" ->
           [len |-> 25, words |-> <<"click", "here", "for", "free", "money">>,
            q |-> 0, x |-> 0, mentions |-> 0, hashtags |-> 0, emojis |-> 0,
            patterns |-> 2, distinct |-> 13]
      [] m = "click here for free money!!!!!! scam" ->
           [len |-> 36,
            words |-> <<"click", "here", "for", "free", "money", "scam">>,
            q |-> 0, x |-> 6, mentions |-> 0, hashtags |-> 0, emojis |-> 0,
            patterns |-> 2, distinct |-> 16]
      [] m = "good, hello x9" ->
           [len |-> 58, words |-> <<"good">> \o Repeat("hello", 9),
            q |-> 0, x |-> 0, mentions |-> 0, hashtags |-> 0, emojis |-> 0,
            patterns |-> 0, distinct |-> 7]
      [] m = "good x21, hello x188" ->
           [len |-> 1232, words |-> Repeat("good", 21) \o Repeat("hello", 188),
            q |-> 0, x |-> 0, mentions |-> 0, hashtags |-> 0, emojis |-> 0,
            patterns |-> 0, distinct |-> 7]
      [] m = "good hello hello" ->
           [len |-> 16, words |-> <<"good", "hello", "hello">>,
            q |-> 0, x |-> 0, mentions |-> 0, hashtags |-> 0, emojis |-> 0,
            patterns |-> 0, distinct |-> 7]
      [] m = "bad, hello x9" ->
           [len |-> 57, words |-> <<"bad">> \o Repeat("hello", 9),
            q |-> 0, x |-> 0, mentions |-> 0, hashtags |-> 0, emojis |-> 0,
            patterns |-> 0, distinct |-> 8]
      [] m = "bad x21, hello x188" ->
           [len |-> 1211, words |-> Repeat("bad", 21) \o Repeat("hello", 188),
            q |-> 0, x |-> 0, mentions |-> 0, hashtags |-> 0, emojis |-> 0,
            patterns |-> 0, distinct |-> 8]
      [] m = "bad bad hello" ->
           [len |-> 13, words |-> <<"bad", "bad", "hello">>,
            q |-> 0, x |-> 0, mentions |-> 0, hashtags |-> 0, emojis |-> 0,
            patterns |-> 0, distinct |-> 8]
      [] m = "good bad" ->
           [len |-> 8, words |-> <<"good", "bad">>,
            q |-> 0, x |-> 0, mentions |-> 0, hashtags |-> 0, emojis |-> 0,
            patterns |-> 0, distinct |-> 6]
      [] m = "?!" ->
           [len |-> 2, words |-> <<>>,
            q |-> 1, x |-> 1, mentions |-> 0, hashtags |-> 0, emojis |-> 0,
            patterns |-> 0, distinct |-> 2]
      [] m = "hello x100" ->
           [len |-> 599, words |-> Repeat("hello", 100),
            q |-> 0, x |-> 0, mentions |-> 0, hashtags |-> 0, emojis |-> 0,
            patterns |-> 0, distinct |-> 5]
      [] m = "scam x4, hello x96" ->
           [len |-> 595, words |-> <<"scam", "scam", "scam", "scam">> \o Repeat("hello", 96),
            q |-> 0, x |-> 0, mentions |-> 0, hashtags |-> 0, emojis |-> 0,
            patterns |-> 0, distinct |-> 9]
      [] m = "scam x8, hello x92" ->
           [len |-> 591, words |-> Repeat("scam", 8) \o Repeat("hello", 92),
            q |-> 0, x |-> 0, mentions |-> 0, hashtags |-> 0, emojis |-> 0,
            patterns |-> 0, distinct |-> 9]
      [] m = "scam x20, hello x80" ->
           [len |-> 579, words |-> Repeat("scam", 20) \o Repeat("hello", 80),
            q |-> 0, x |-> 0, mentions |-> 0, hashtags |-> 0, emojis |-> 0,
            patterns |-> 0, distinct |-> 9]
      [] m = "a x5" ->
           [len |-> 9, words |-> Repeat("a", 5),
            q |-> 0, x |-> 0, mentions |-> 0, hashtags |-> 0, emojis |-> 0,
            patterns |-> 0, distinct |-> 2]
      [] m = "ab, a x4" ->
           [len |-> 10, words |-> <<"ab", "a", "a", "a", "a">>,
            q |-> 0, x |-> 0, mentions |-> 0, hashtags |-> 0, emojis |-> 0,
            patterns |-> 0, distinct |-> 3]
      [] m = "a x25" ->
           [len |-> 49, words |-> Repeat("a", 25),
            q |-> 0, x |-> 0, mentions |-> 0, hashtags |-> 0, emojis |-> 0,
            patterns |-> 0, distinct |-> 2]
      [] m = "ab, a x24" ->
           [len |-> 50, words |-> <<"ab">> \o Repeat("a", 24),
            q |-> 0, x |-> 0, mentions |-> 0, hashtags |-> 0, emojis |-> 0,
            patterns |-> 0, distinct |-> 3]
      [] m = "ab, a x99" ->
           [len |-> 200, words |-> <<"ab">> \o Repeat("a", 99),
            q |-> 0, x |-> 0, mentions |-> 0, hashtags |-> 0, emojis |-> 0,
            patterns |-> 0, distinct |-> 3]
      [] m = "a x101" ->
           [len |-> 201, words |-> Repeat("a", 101),
            q |-> 0, x |-> 0, mentions |-> 0, hashtags |-> 0, emojis |-> 0,
            patterns |-> 0, distinct |-> 2]
      [] m = "ab, a x249" ->
           [len |-> 500, words |-> <<"ab">> \o Repeat("a", 249),
            q |-> 0, x |-> 0, mentions |-> 0, hashtags |-> 0, emojis |-> 0,
            patterns |-> 0, distinct |-> 3]
      [] m = "a x251" ->
           [len |-> 501, words |-> Repeat("a", 251),
            q |-> 0, x |-> 0, mentions |-> 0, hashtags |-> 0, emojis |-> 0,
            patterns |-> 0, distinct |-> 2]
      [] m = "ok?" ->
           [len |-> 3, words |-> <<"ok">>,
            q |-> 1, x |-> 0, mentions |-> 0, hashtags |-> 0, emojis |-> 0,
            patterns |-> 0, distinct |-> 3]
      [] m = "why? how? what?" ->
           [len |-> 15, words |-> <<"why", "how", "what">>,
            q |-> 3, x |-> 0, mentions |-> 0, hashtags |-> 0, emojis |-> 0,
            patterns |-> 0, distinct |-> 8]
      \* <rocket> stands for the emoji U+1F680
      [] m = "gm @alice @bob #sol <rocket>" ->
           [len |-> 21, words |-> <<"gm", "alice", "bob", "sol">>,
            q |-> 0, x |-> 0, mentions |-> 2, hashtags |-> 1, emojis |-> 1,
            patterns |-> 0, distinct |-> 14]
      [] m = "who is in??? go!!!!!! @a @b @c @d #w #x #y #z <rocket> x6" ->
           [len |-> 57, words |-> <<"who", "is", "in", "go", "a", "b", "c", "d", "w", "x", "y", "z">>,
            q |-> 3, x |-> 6, mentions |-> 4, hashtags |-> 4, emojis |-> 6,
            patterns |-> 0, distinct |-> 20]
      [] m = "click here free money act now dm me risk free limited time http://x.io!!!!!!" ->
           [len |-> 76, words |-> <<"click", "here", "free", "money", "act", "now", "dm", "me", "risk", "free", "limited", "time", "http", "x", "io">>,
            q |-> 0, x |-> 6, mentions |-> 0, hashtags |-> 0, emojis |-> 0,
            patterns |-> 7, distinct |-> 24]
      [] m = "click here free money act now dm me" ->
           [len |-> 35, words |-> <<"click", "here", "free", "money", "act", "now", "dm", "me">>,
            q |-> 0, x |-> 0, mentions |-> 0, hashtags |-> 0, emojis |-> 0,
            patterns |-> 4, distinct |-> 17]
      [] m = "dm me" ->
           [len |-> 5, words |-> <<"dm", "me">>,
            q |-> 0, x |-> 0, mentions |-> 0, hashtags |-> 0, emojis |-> 0,
            patterns |-> 1, distinct |-> 4]
      [] OTHER ->
           [len |-> 0, words |-> <<>>,
            q |-> 0, x |-> 0, mentions |-> 0, hashtags |-> 0, emojis |-> 0,
            patterns |-> 0, distinct |-> 0]

\* sum(1 for word in words if word in word_set)
CountIn(words, word_set) == Cardinality({k \in DOMAIN words : words[k] \in word_set})

\* The label of analyze_sentiment for the three counts:
\* score = (positive - negative) / word_count, clamped, against +-0.1.
\* A sentiment label that counts a score of exactly 0.1 as positive and of
\* exactly -0.1 as negative.
SentimentLabelInclusive(positive_count, negative_count, word_count) ==
    IF positive_count + negative_count = 0 THEN "neutral"
    ELSE IF 10 * (positive_count - negative_count) >= word_count THEN "positive"
    ELSE IF 10 * (positive_count - negative_count) <= -word_count THEN "negative"
    ELSE "neutral"

SentimentLabel(positive_count, negative_count, word_count) ==
    IF positive_count + negative_count = 0 THEN "neutral"
    ELSE IF 10 * (positive_count - negative_count) > word_count THEN "positive"
    ELSE IF 10 * (positive_count - negative_count) < -word_count THEN "negative"
    ELSE "neutral"

\* round(min(1.0, num / den), 3), in thousandths.
RoundMilli(num, den) == Min(1000, (2000 * num + den) \div (2 * den))

\* round(num / den, 3) in thousandths, for either sign of num; no message
\* of the model has a quotient halfway between two thousandths.
RoundMilliSigned(num, den) ==
    IF num >= 0 THEN (2000 * num + den) \div (2 * den)
    ELSE -((2000 * (-num) + den) \div (2 * den))

analyze_sentiment(f) ==
    LET p == CountIn(f.words, positive_words)
        n == CountIn(f.words, negative_words)
    IN [\* round(max(-1, min(1, (p - n) / len(words))), 3), 0 without
        \* sentiment words
        score_milli |-> IF p + n = 0 THEN 0
                        ELSE Clamp(-1000, 1000,
                                   RoundMilliSigned(p - n, Len(f.words))),
        label |-> SentimentLabel(p, n, Len(f.words)),
        \* round(min(1.0, total / max(1, len(words))), 3)
        confidence_milli |-> RoundMilli(p + n, Max(1, Len(f.words))),
        positive_words |-> p,
        negative_words |-> n,
        \* min(1.0, total / max(1, len(words))) > 0.7
        confident |-> 10 * (p + n) > 7 * Max(1, Len(f.words))]

\* The level of detect_toxicity: toxicity_score = min(1.0, count / max(1, n) * 10)
\* in double arithmetic, where count / n = 0.07 gives 0.7000000000000001.
ToxicityLevel(toxic_count, word_count) ==
    IF 100 * toxic_count >= 7 * Max(1, word_count) THEN "high"
    ELSE IF 100 * toxic_count > 3 * Max(1, word_count) THEN "medium"
    ELSE IF toxic_count > 0 THEN "low"
    ELSE "none"

\* toxicity_score > 0.3
IsToxic(toxic_count, word_count) == 100 * toxic_count > 3 * Max(1, word_count)

\* detect_toxicity without the cap min(1.0, ...) on the score.
detect_toxicity_uncapped(f) ==
    LET t == CountIn(f.words, toxic_words)
        den == Max(1, Len(f.words))
    IN [is_toxic |-> IsToxic(t, Len(f.words)),
        score_milli |-> (2000 * 10 * t + den) \div (2 * den),
        level |-> ToxicityLevel(t, Len(f.words)),
        toxic_count |-> t]

detect_toxicity(f) ==
    LET t == CountIn(f.words, toxic_words) IN
    [is_toxic |-> IsToxic(t, Len(f.words)),
     score_milli |-> RoundMilli(10 * t, Max(1, Len(f.words))),
     level |-> ToxicityLevel(t, Len(f.words)),
     toxic_count |-> t]

\* len(spam_indicators)
SpamIndicators(f) ==
    f.patterns
    + (IF f.len > 500 THEN 1 ELSE 0)
    + (IF f.x > 5 THEN 1 ELSE 0)
    + (IF 10 * f.distinct < 3 * Max(1, f.len) THEN 1 ELSE 0)

\* spam_score = min(1.0, indicators / 5): > 0.5, > 0.7, > 0.3
detect_spam(f) ==
    LET k == SpamIndicators(f) IN
    [is_spam |-> 2 * k > 5,
     score_milli |-> RoundMilli(k, 5),
     indicators |-> k,
     risk_level |-> IF 10 * k > 35 THEN "high" ELSE IF 10 * k > 15 THEN "medium" ELSE "low"]

\* An engagement score whose optimal length range excludes 200 characters.
engagement_score_exclusive(f) ==
    Clamp(0, 100,
          50
          + (IF 50 <= f.len /\ f.len < 200 THEN 10
             ELSE IF f.len > 500 THEN -10
             ELSE IF f.len < 10 THEN -5
             ELSE 0)
          + Min(10, f.q * 5)
          + Min(10, f.x * 2)
          + Min(15, f.mentions * 5)
          + Min(10, f.hashtags * 3)
          + Min(15, f.emojis * 3))

calculate_engagement_score(f) ==
    Clamp(0, 100,
          50
          + (IF 50 <= f.len /\ f.len <= 200 THEN 10
             ELSE IF f.len > 500 THEN -10
             ELSE IF f.len < 10 THEN -5
             ELSE 0)
          + Min(10, f.q * 5)
          + Min(10, f.x * 2)
          + Min(15, f.mentions * 5)
          + Min(10, f.hashtags * 3)
          + Min(15, f.emojis * 3))

\* Moderation that flags a message as soon as its toxicity level is not none.
flags_by_level(toxicity, spam) ==
    LET toxic == toxicity.level /= "none" IN
    [flags |-> (IF toxic THEN <<"toxic_content">> ELSE <<>>)
               \o (IF spam.is_spam THEN <<"spam_content">> ELSE <<>>),
     recommended_actions |->
         (IF toxic
          THEN IF toxicity.level = "high"
               THEN <<"auto_remove">> ELSE <<"flag_for_review">>
          ELSE <<>>)
         \o (IF spam.is_spam THEN <<"flag_for_review">> ELSE <<>>),
     requires_human_review |-> toxic \/ spam.is_spam,
     auto_moderate |-> toxicity.level = "high"]

get_moderation_flags(toxicity, spam) ==
    LET flags == (IF toxicity.is_toxic THEN <<"toxic_content">> ELSE <<>>)
                 \o (IF spam.is_spam THEN <<"spam_content">> ELSE <<>>)
        actions == (IF toxicity.is_toxic
                    THEN IF toxicity.level = "high"
                         THEN <<"auto_remove">> ELSE <<"flag_for_review">>
                    ELSE <<>>)
                   \o (IF spam.is_spam THEN <<"flag_for_review">> ELSE <<>>)
    IN [flags |-> flags,
        recommended_actions |-> actions,
        requires_human_review |-> Len(flags) > 0,
        auto_moderate |-> \E k \in DOMAIN actions : actions[k] = "auto_remove"]

generate_insights(sentiment, toxicity, engagement) ==
    (IF sentiment.label = "positive" /\ engagement > 70
       THEN <<"High-engagement positive message - potential viral content">> ELSE <<>>)
    \o (IF sentiment.label = "negative" /\ sentiment.confident
          THEN <<"Strong negative sentiment detected - monitor for escalation">> ELSE <<>>)
    \o (IF toxicity.is_toxic
          THEN <<"Toxic content detected - requires moderation">> ELSE <<>>)
    \o (IF engagement > 80
          THEN <<"High engagement potential - consider promoting">>
        ELSE IF engagement < 30
          THEN <<"Low engagement - content may need improvement">>
        ELSE <<>>)

\* The try body of ChatAnalysisWorker.process_event after validation.
ChatProcessed(env, t) ==
    LET data == env["data"]
        message == Get(data, "message", "")
        f == MessageFeatures(message)
        sentiment == analyze_sentiment(f)
        toxicity == detect_toxicity(f)
        spam == detect_spam(f)
        engagement == calculate_engagement_score(f)
    IN [id |-> SuccessId("chat_analysis", t),
        type |-> "chat_analysis",
        original_data |-> data,
        message |-> message,
        user |-> Get(data, "user", "Unknown"),
        channel |-> Get(data, "channel", "general"),
        analysis |-> [sentiment |-> sentiment,
                      toxicity |-> toxicity,
                      spam |-> spam,
                      engagement_score |-> engagement,
                      word_count |-> Len(f.words)],
        moderation |-> get_moderation_flags(toxicity, spam),
        insights |-> generate_insights(sentiment, toxicity, engagement),
        processed_at |-> t,
        processed_by |-> Get(env, "user_id", 0),
        worker |-> "chat_analysis_worker"]

ChatSteps == <<"analyze_sentiment", "detect_toxicity", "detect_spam",
               "calculate_engagement_score">>


---------------------------------------------------------------------------
(* Inputs: the data dicts posted to /ingest, per event type, and what      *)
(* another producer may leave on the list.                                 *)

LeadInputs ==
    {[name |-> "Ann", email |-> "ann@gmail.com"],
     [name |-> "Bob", email |-> "bob@acme.com", company_size |-> "1000+ Employees",
      title |-> "VP of Sales", source |-> "linkedin"],
     [name |-> "Cy"],
     [name |-> "", email |-> "dean@uni.edu"],
     [name |-> "Eve", email |-> "eve@corp.com", company_size |-> "#500"]}

BlockchainInputs ==
    {[event_type |-> "nft_sale", collection |-> "apes", price |-> "15",
      signature |-> "sig1"],
     [event_type |-> "nft_sale", collection |-> "apes", price |-> "abc"],
     [event_type |-> "token_transfer", token |-> "SOL", amount |-> "250000"],
     [event_type |-> "defi_swap", token_in |-> "SOL", token_out |-> "USDC",
      amount_in |-> "15", amount_out |-> "3"],
     [event_type |-> "mint"],
     [collection |-> "apes"]}

ChatInputs ==
    {[message |-> "good great amazing!!! @alice #win", user |-> "alice"],
     [message |-> "scam fraud fake", user |-> "eve"],
     [message |-> "", user |-> "bob"],
     [message |-> "good great amazing!!! @alice #win"]}

Inputs(wt) ==
    CASE wt = "lead_scoring" -> LeadInputs
      [] wt = "blockchain_events" -> BlockchainInputs
      [] wt = "chat_analysis" -> ChatInputs

\* event.dict() plus user_id and user_email, as json.dumps writes it (the
\* workers read neither metadata nor timestamp: both are left out).
Envelope(wt, data) ==
    [json |-> "object",
     obj |-> [event_type |-> wt, data |-> data,
              user_id |-> 1, user_email |-> "analyst@corp.com"]]

\* Not JSON at all; JSON but no object (null, a number, a string, an array);
\* an object without "data".
RawPayloads(wt) ==
    {[json |-> "malformed"],
     [json |-> "scalar"],
     [json |-> "object", obj |-> [event_type |-> wt, user_id |-> 1]]}

\* The environment's inputs to one process_event call: the outcome of the
\* AI call (lead) and the hashes of the strings looked up (blockchain).
Choices(wt) ==
    CASE wt = "lead_scoring" ->
           {[ai |-> x, hs |-> [a |-> 0, b |-> 0]] : x \in AIOutcomes}
      [] wt = "blockchain_events" ->
           {[ai |-> [kind |-> "none"], hs |-> [a |-> x, b |-> 253 - x]] : x \in Hashes}
      [] wt = "chat_analysis" ->
           {[ai |-> [kind |-> "none"], hs |-> [a |-> 0, b |-> 0]]}

---------------------------------------------------------------------------
(* process_event, up to the dict it is about to save. *)

validate_event(wt, data) ==
    CASE wt = "lead_scoring" -> RequiredPresentAndTruthy(data, {"name", "email"})
      [] wt = "blockchain_events" -> "event_type" \in DOMAIN data
      [] wt = "chat_analysis" -> RequiredPresentAndTruthy(data, {"message", "user"})

ValidationMessage(wt) ==
    CASE wt = "lead_scoring" -> "Invalid lead data: missing required fields"
      [] wt = "blockchain_events" -> "Invalid blockchain event data"
      [] wt = "chat_analysis" -> "Invalid chat event data"

\* json.loads(event_json) returns (does not raise JSONDecodeError).
json_loads_ok(body) == body.json /= "malformed"

\* The except branch itself raises: event_data.get on what is no dict.
ExceptBranchRaises(body) == body.json /= "object"

\* What process_event does with the decoded event_data at time t under the
\* environment's choice ch: it raises, or it has built a dict (value) on
\* its success path or in its except branch; steps are the analysis steps
\* it ran on the way.
process_event(wt, body, ch, t) ==
    IF body.json /= "object"
    THEN \* event_data["data"] raises TypeError; the except branch runs
         [raised |-> ExceptBranchRaises(body), value |-> NoResult, steps |-> <<>>]
    ELSE
      LET env == body.obj IN
      IF "data" \notin DOMAIN env
      THEN [raised |-> ExceptBranchRaises(body),
            value |-> error_data(wt, env, Err("KeyError", "data"), t),
            steps |-> <<>>]
      ELSE IF ~validate_event(wt, env["data"])
      THEN [raised |-> FALSE,
            value |-> error_data(wt, env, Err(ValidationMessage(wt), ""), t),
            steps |-> <<"validate_event">>]
      ELSE
        CASE wt = "lead_scoring" ->
               IF AnalyzeRaises(env["data"], ch.ai)
               THEN [raised |-> FALSE,
                     value |-> error_data(wt, env, Err("AttributeError", "lower"), t),
                     steps |-> <<"validate_event">> \o LeadSteps(ch.ai)]
               ELSE [raised |-> FALSE,
                     value |-> LeadProcessed(env, ch.ai, t),
                     steps |-> <<"validate_event">> \o LeadSteps(ch.ai)]
          [] wt = "blockchain_events" ->
               LET event_type == Get(env["data"], "event_type", "unknown") IN
               IF event_type \in KnownEventTypes
               THEN [raised |-> FALSE,
                     value |-> BlockchainProcessed(env, ch.hs, t),
                     steps |-> <<"validate_event">> \o BlockchainSteps(env["data"])]
               ELSE [raised |-> FALSE,
                     value |-> error_data(wt, env,
                                  Err("Unknown blockchain event type", event_type), t),
                     steps |-> <<"validate_event">>]
          [] wt = "chat_analysis" ->
               [raised |-> FALSE,
                value |-> ChatProcessed(env, t),
                steps |-> <<"validate_event">> \o ChatSteps]

AnalysisSteps ==
    {"ai_call", "fallback_scoring", "nft_sale", "token_transfer", "defi_swap",
     "analyze_sentiment", "detect_toxicity", "detect_spam",
     "calculate_engagement_score"}

---------------------------------------------------------------------------
(* Redis and Neo4j, as the code uses them. *)

\* redis_client.lpush(queue_name, payload)
lpush(q, item) == <<item>> \o q

\* redis_client.brpop(queue_name, timeout=1) on a non-empty list: the item
\* returned and the list left.
brpop(q) == [item |-> q[Len(q)], rest |-> SubSeq(q, 1, Len(q) - 1)]

\* redis_client.setex(key, 3600, json.dumps(data)) at time t
setex(c, key, ttl, value, t) ==
    (key :> [value |-> value, expires |-> t + ttl]) @@ c

\* redis_client.get(key) at time t: Redis drops a key at its expiry.
CacheGet(c, key, t) ==
    IF key \in DOMAIN c /\ t < c[key].expires THEN c[key].value ELSE NoResult

\* The properties update_graph_relationships sets on the node it merges.
GraphProps(wt, r) ==
    CASE wt = "lead_scoring" ->
           [name |-> Get(r.original_data, "name", ""),
            email |-> Get(r.original_data, "email", ""),
            company |-> Get(r.original_data, "company", ""),
            score |-> r.lead_score,
            category |-> r.category,
            processed_at |-> r.processed_at]
      [] wt = "blockchain_events" ->
           [type |-> r.type, processed_at |-> r.processed_at, data |-> r]
      [] wt = "chat_analysis" ->
           [content |-> r.message,
            sentiment |-> r.analysis.sentiment.label,
            engagement |-> r.analysis.engagement_score,
            processed_at |-> r.processed_at]

\* MERGE (n {id: $id}) SET n.<property> = ...
merge_node(g, id, props) == (id :> props) @@ g


---------------------------------------------------------------------------
(* The state machine. *)

Serials == 1 .. MaxEvents

Serial(q) == Len(q) + 1

Init ==
    /\ wtype \in WorkerTypes
    /\ queue = <<>>
    /\ cache = [k \in {} |-> NoResult]
    /\ graph = [k \in {} |-> NoResult]
    /\ now = 0
    /\ proc = [i \in Instances |-> IF i = "w1" THEN "running" ELSE "absent"]
    /\ pc = [i \in Instances |-> "idle"]
    /\ cur = [i \in Instances |-> NoItem]
    /\ res = [i \in Instances |-> NoResult]
    /\ wakeAt = [i \in Instances |-> 0]
    /\ pushed = <<>>
    /\ trace = [n \in Serials |-> <<>>]
    /\ popLog = [i \in Instances |-> <<>>]
    /\ returnLog = [i \in Instances |-> <<>>]
    /\ writeLog = <<>>
    /\ faults = 0
    /\ ticks = 0
    /\ redis_client = "unset"
    /\ tokens = {}
    /\ blacklist = [t \in {} |-> 0]
    /\ verifyLog = <<>>

Note(n, steps) == [trace EXCEPT ![n] = @ \o steps]

Has(seq, x) == \E k \in DOMAIN seq : seq[k] = x

\* POST /ingest: the envelope is pushed on the left of events:{event_type}.
ingest_event(data) ==
    /\ Len(pushed) < MaxEvents
    /\ queue' = lpush(queue, [n |-> Serial(pushed), body |-> Envelope(wtype, data)])
    /\ pushed' = Append(pushed, Envelope(wtype, data))
    /\ UNCHANGED <<authVars, wtype, cache, graph, now, proc, pc, cur, res, wakeAt, trace,
                   popLog, returnLog, writeLog, faults, ticks>>

\* Another producer pushes a payload the endpoint would never write.
PushRaw(body) ==
    /\ Len(pushed) < MaxEvents
    /\ queue' = lpush(queue, [n |-> Serial(pushed), body |-> body])
    /\ pushed' = Append(pushed, body)
    /\ UNCHANGED <<authVars, wtype, cache, graph, now, proc, pc, cur, res, wakeAt, trace,
                   popLog, returnLog, writeLog, faults, ticks>>

\* brpop times out on the empty list and returns None: the loop polls again.
BrpopEmpty(i) ==
    /\ proc[i] = "running" /\ pc[i] = "idle"
    /\ queue = <<>>
    /\ UNCHANGED vars

\* Where the loop goes when an exception other than JSONDecodeError
\* reaches it: except Exception logs and sleeps.
AfterWorkerError == "backoff"

\* Where the loop goes on JSONDecodeError: logged, next iteration.
AfterDecodeError == "idle"

\* brpop raises (Redis unreachable).
BrpopError(i) ==
    /\ proc[i] = "running" /\ pc[i] = "idle"
    /\ faults < MaxFaults
    /\ faults' = faults + 1
    /\ pc' = [pc EXCEPT ![i] = AfterWorkerError]
    /\ wakeAt' = [wakeAt EXCEPT ![i] = now + BACKOFF_SECONDS]
    /\ UNCHANGED <<authVars, wtype, queue, cache, graph, now, proc, cur, res, pushed,
                   trace, popLog, returnLog, writeLog, ticks>>

\* brpop returns an item and json.loads raises JSONDecodeError.
TakeMalformed(i) ==
    /\ proc[i] = "running" /\ pc[i] = "idle"
    /\ queue /= <<>>
    /\ LET got == brpop(queue) IN
         /\ ~json_loads_ok(got.item.body)
         /\ queue' = got.rest
         /\ popLog' = [popLog EXCEPT ![i] = Append(@, got.item.n)]
         /\ trace' = Note(got.item.n, <<"pop", "json_decode_error">>)
    /\ pc' = [pc EXCEPT ![i] = AfterDecodeError]
    /\ wakeAt' = [wakeAt EXCEPT ![i] = IF AfterDecodeError = "backoff"
                                      THEN now + BACKOFF_SECONDS ELSE @]
    /\ UNCHANGED <<authVars, wtype, cache, graph, now, proc, cur, res, pushed,
                   returnLog, writeLog, faults, ticks>>

\* brpop returns an item, json.loads decodes it and process_event runs up to
\* its save_to_database call, or raises out of its except branch.
Take(i, choices) ==
    /\ proc[i] = "running" /\ pc[i] = "idle"
    /\ queue /= <<>>
    /\ LET got == brpop(queue) IN
         /\ json_loads_ok(got.item.body)
         /\ queue' = got.rest
         /\ popLog' = [popLog EXCEPT ![i] = Append(@, got.item.n)]
         /\ \E ch \in choices :
              LET out == process_event(wtype, got.item.body, ch, now) IN
                IF out.raised
                THEN /\ trace' = Note(got.item.n,
                                      <<"pop", "process_event">> \o out.steps \o <<"raise">>)
                     /\ pc' = [pc EXCEPT ![i] = AfterWorkerError]
                     /\ wakeAt' = [wakeAt EXCEPT ![i] = now + BACKOFF_SECONDS]
                     /\ UNCHANGED <<cur, res>>
                ELSE /\ trace' = Note(got.item.n, <<"pop", "process_event">> \o out.steps)
                     /\ pc' = [pc EXCEPT ![i] = "save"]
                     /\ cur' = [cur EXCEPT ![i] = got.item]
                     /\ res' = [res EXCEPT ![i] = out.value]
                     /\ UNCHANGED wakeAt
    /\ UNCHANGED <<authVars, wtype, cache, graph, now, proc, pushed, returnLog, writeLog,
                   faults, ticks>>

TakeEvent(i) == Take(i, Choices(wtype))

\* return processed_data / return error_data, back in the loop.
Returned(i, saved) ==
    [returnLog EXCEPT ![i] = Append(@, [n |-> cur[i].n, value |-> res[i], saved |-> saved])]

\* save_to_database: SETEX succeeds, or raises and False is returned (the
\* caller drops the return value).  The except branch of process_event
\* returns right after; the success path goes on to the graph.
SaveToDatabase(i) ==
    /\ proc[i] = "running" /\ pc[i] = "save"
    /\ \E ok \in BOOLEAN :
         /\ ~ok => faults < MaxFaults
         /\ faults' = IF ok THEN faults ELSE faults + 1
         /\ LET key == CacheKey(wtype, res[i].id) IN
              /\ cache' = IF ok THEN setex(cache, key, CACHE_TTL, res[i], now) ELSE cache
              /\ writeLog' = IF ok
                             THEN Append(writeLog, [key |-> key, value |-> res[i],
                                                    at |-> now, n |-> cur[i].n])
                             ELSE writeLog
         /\ IF IsErrorResult(res[i])
            THEN /\ trace' = Note(cur[i].n,
                                  <<IF ok THEN "setex" ELSE "setex_failed", "return">>)
                 /\ returnLog' = Returned(i, ok)
                 /\ pc' = [pc EXCEPT ![i] = "idle"]
                 /\ cur' = [cur EXCEPT ![i] = NoItem]
                 /\ res' = [res EXCEPT ![i] = NoResult]
            ELSE /\ trace' = Note(cur[i].n, <<IF ok THEN "setex" ELSE "setex_failed">>)
                 /\ pc' = [pc EXCEPT ![i] = "graph"]
                 /\ UNCHANGED <<returnLog, cur, res>>
    /\ UNCHANGED <<authVars, wtype, queue, graph, now, proc, wakeAt, pushed, popLog, ticks>>

\* A process_event in which the exception of the graph write reaches the
\* except branch.
GraphFailureBecomesError(wt, env, r, t) ==
    error_data(wt, env, Err("graph write failed", ""), t)

\* What process_event returns when update_graph_relationships has caught
\* its own exception and logged the warning: processed_data, as built.
AfterGraphFailure(wt, env, r, t) == r

\* update_graph_relationships: the MERGE runs, or raises and is logged as a
\* warning; process_event returns processed_data either way.
UpdateGraph(i) ==
    /\ proc[i] = "running" /\ pc[i] = "graph"
    /\ \E ok \in BOOLEAN :
         /\ ~ok => faults < MaxFaults
         /\ faults' = IF ok THEN faults ELSE faults + 1
         /\ graph' = IF ok
                     THEN merge_node(graph, res[i].id, GraphProps(wtype, res[i]))
                     ELSE graph
         /\ trace' = Note(cur[i].n, <<IF ok THEN "merge" ELSE "merge_failed", "return">>)
         /\ returnLog' =
              [returnLog EXCEPT ![i] =
                 Append(@, [n |-> cur[i].n,
                            value |-> IF ok THEN res[i]
                                      ELSE AfterGraphFailure(wtype, cur[i].body.obj, res[i], now),
                            saved |-> Has(trace[cur[i].n], "setex")])]
    /\ pc' = [pc EXCEPT ![i] = "idle"]
    /\ cur' = [cur EXCEPT ![i] = NoItem]
    /\ res' = [res EXCEPT ![i] = NoResult]
    /\ UNCHANGED <<authVars, wtype, queue, cache, now, proc, wakeAt, pushed, popLog,
                   writeLog, ticks>>

\* await asyncio.sleep(5) ends: the clock has reached wakeAt.
Wake(i) ==
    /\ proc[i] = "running" /\ pc[i] = "backoff"
    /\ now' = Max(now, wakeAt[i])
    /\ pc' = [pc EXCEPT ![i] = "idle"]
    /\ UNCHANGED <<authVars, wtype, queue, cache, graph, proc, cur, res, wakeAt, pushed,
                   trace, popLog, returnLog, writeLog, faults, ticks>>

\* A second worker process of the same type is started.
StartInstance(i) ==
    /\ proc[i] = "absent"
    /\ faults < MaxFaults
    /\ faults' = faults + 1
    /\ proc' = [proc EXCEPT ![i] = "running"]
    /\ UNCHANGED <<authVars, wtype, queue, cache, graph, now, pc, cur, res, wakeAt, pushed,
                   trace, popLog, returnLog, writeLog, ticks>>

\* A worker process is killed from outside while it holds an event.
Crash(i) ==
    /\ proc[i] = "running" /\ pc[i] \in {"save", "graph"}
    /\ faults < MaxFaults
    /\ faults' = faults + 1
    /\ proc' = [proc EXCEPT ![i] = "killed"]
    /\ UNCHANGED <<authVars, wtype, queue, cache, graph, now, pc, cur, res, wakeAt, pushed,
                   trace, popLog, returnLog, writeLog, ticks>>

\* Time passes.
Tick(d) ==
    /\ ticks < MaxTicks
    /\ ticks' = ticks + 1
    /\ now' = now + d
    /\ UNCHANGED <<authVars, wtype, queue, cache, graph, proc, pc, cur, res, wakeAt, pushed,
                   trace, popLog, returnLog, writeLog, faults>>

\* One step of listen_and_process in instance i.
listen_and_process(i) ==
    \/ BrpopEmpty(i)
    \/ BrpopError(i)
    \/ TakeMalformed(i)
    \/ TakeEvent(i)
    \/ SaveToDatabase(i)
    \/ UpdateGraph(i)
    \/ Wake(i)

Next ==
    \/ \E data \in Inputs(wtype) : ingest_event(data)
    \/ \E body \in RawPayloads(wtype) : PushRaw(body)
    \/ \E i \in Instances : listen_and_process(i)
    \/ \E i \in Instances : StartInstance(i)
    \/ \E i \in Instances : Crash(i)
    \/ \E d \in TimeSteps : Tick(d)

Spec == Init /\ [][Next]_vars

---------------------------------------------------------------------------
(* The lead pipeline alone: one lead event, drawn from a wider set of data *)
(* dicts and AI answers, taken through process_event by one instance.      *)

\* Scores an AI answer may carry: the thresholds and their neighbours, and
\* numbers outside 0..100 (nothing in the call bounds what the model says).
AnswerScores == {0, 59, 60, 79, 80, 100, 150, -5}

\* The call raises; a JSON object with a "score" (and whatever category the
\* model wrote); and the texts below.
LeadAIOutcomes ==
    {NoText}
    \cup {ScoredObject(x, "warm") : x \in AnswerScores}
    \cup {\* {"category": "hot"}
          Text("json", FALSE, FALSE, 0, FALSE, 0, "hot"),
          \* {"analysis": {"score": 70}}
          Text("json", FALSE, FALSE, 0, TRUE, 70, ""),
          \* {"score": 85.9}
          Text("json", TRUE, TRUE, 85, TRUE, 85, ""),
          \* {"score": "high"}
          Text("json", TRUE, FALSE, 0, FALSE, 0, ""),
          \* {"score": null, "detail": {"score": 70}}
          Text("json", TRUE, FALSE, 0, TRUE, 70, ""),
          \* [{"score": 5}]
          Text("json_other", FALSE, FALSE, 0, TRUE, 5, ""),
          \* null
          Text("json_other", FALSE, FALSE, 0, FALSE, 0, ""),
          \* The lead is strong. "score": 72 overall
          Text("text", FALSE, FALSE, 0, TRUE, 72, ""),
          \* I think "score": 9999
          Text("text", FALSE, FALSE, 0, TRUE, 9999, ""),
          \* no number here
          Text("text", FALSE, FALSE, 0, FALSE, 0, "")}

LeadChoices == {[ai |-> x, hs |-> [a |-> 0, b |-> 0]] : x \in LeadAIOutcomes}

LeadData ==
    {[name |-> "Bob", email |-> e, company_size |-> c, title |-> t, source |-> src] :
       e \in {"ann@gmail.com", "dean@uni.edu", "bob@acme.com"},
       c \in {"1000+ Employees", "Medium", "Medium Enterprise", "", "#500"},
       t \in {"VP of Sales", ""},
       src \in {"linkedin", "cold_email", ""}}

LeadInit == Init /\ wtype = "lead_scoring"

LeadIngest(data) == pushed = <<>> /\ ingest_event(data)

LeadTake(i) == Take(i, LeadChoices)

LeadNext ==
    \/ \E data \in LeadData : LeadIngest(data)
    \/ LeadTake("w1")
    \/ SaveToDatabase("w1")
    \/ UpdateGraph("w1")

LeadSpec == LeadInit /\ [][LeadNext]_vars

---------------------------------------------------------------------------
(* The blockchain pipeline alone: one instance, one event, with collections,
   tokens and signatures that are strings and that are JSON arrays. *)

BlockchainChoices == Choices("blockchain_events")

BlockchainData ==
    {[event_type |-> "nft_sale", collection |-> c, price |-> p, signature |-> sg] :
       c \in {"apes", "[array]"},
       p \in {"15", "abc", "1", "2.4", "3", "4.5", "4.5001"},
       sg \in {"sig1", "[array]", ""}}
    \cup {[event_type |-> "token_transfer", token |-> k, amount |-> a] :
            k \in {"SOL", "[array]"}, a \in {"250000", "3"}}
    \cup {[event_type |-> "defi_swap", token_in |-> k1, token_out |-> k2,
           amount_in |-> "15", amount_out |-> "3"] :
            k1 \in {"SOL", "[array]"}, k2 \in {"USDC", "[array]"}}

BlockchainInit == Init /\ wtype = "blockchain_events"

BlockchainIngest(data) == pushed = <<>> /\ ingest_event(data)

BlockchainTake(i) == Take(i, BlockchainChoices)

BlockchainNext ==
    \/ \E data \in BlockchainData : BlockchainIngest(data)
    \/ BlockchainTake("w1")
    \/ SaveToDatabase("w1")
    \/ UpdateGraph("w1")

BlockchainSpec == BlockchainInit /\ [][BlockchainNext]_vars

---------------------------------------------------------------------------
(* Workers that keep running: no process is killed, and the event loop of
   each started instance goes on executing its while True loop, so a step
   of listen_and_process that stays possible is eventually taken. *)

RunningNext ==
    \/ \E data \in Inputs(wtype) : ingest_event(data)
    \/ \E body \in RawPayloads(wtype) : PushRaw(body)
    \/ \E i \in Instances : listen_and_process(i)
    \/ \E i \in Instances : StartInstance(i)
    \/ \E d \in TimeSteps : Tick(d)

FairSpec ==
    /\ Init
    /\ [][RunningNext]_vars
    /\ \A i \in Instances : WF_vars(listen_and_process(i))

---------------------------------------------------------------------------
(* The chat pipeline alone: one instance, one event, with messages whose
   toxicity and spam scores lie on both sides of every threshold. *)

ChatChoices == Choices("chat_analysis")

\* Messages on both sides of the sentiment, toxicity, spam, length and
\* engagement thresholds.
SentimentMessages ==
    {"good, hello x9", "good x21, hello x188", "good hello hello",
     "bad, hello x9", "bad x21, hello x188", "bad bad hello", "good bad",
     "?!", "hello x100", "scam x4, hello x96", "scam x8, hello x92",
     "scam x20, hello x80", "a x5", "ab, a x4", "a x25", "ab, a x24",
     "ab, a x99", "a x101", "ab, a x249", "a x251", "ok?", "why? how? what?",
     "gm @alice @bob #sol <rocket>",
     "who is in??? go!!!!!! @a @b @c @d #w #x #y #z <rocket> x6",
     "click here free money act now dm me risk free limited time http://x.io!!!!!!",
     "click here free money act now dm me", "dm me"}

ChatMessages ==
    {"hello x5", "scam, hello x39", "scam x3, hello x97", "scam x7, hello x226",
     "scam, hello x19", "scam x7, hello x93", "scam fraud fake",
     "click here for free money, act now", "click here for free money",
     "click here for free money!!!!!! scam", "good great amazing!!! @alice #win"}
    \cup SentimentMessages

ChatData ==
    {[message |-> m, user |-> u] : m \in ChatMessages, u \in {"alice", "eve"}}
    \cup {[message |-> m, user |-> u, channel |-> "trading"] :
            m \in ChatMessages, u \in {"alice", "eve"}}

ChatInit == Init /\ wtype = "chat_analysis"

ChatIngest(data) == pushed = <<>> /\ ingest_event(data)

ChatTake(i) == Take(i, ChatChoices)

ChatNext ==
    \/ \E data \in ChatData : ChatIngest(data)
    \/ ChatTake("w1")
    \/ SaveToDatabase("w1")
    \/ UpdateGraph("w1")

ChatSpec == ChatInit /\ [][ChatNext]_vars

---------------------------------------------------------------------------
(* Authentication: core/auth.py and the /login, /logout and protected     *)
(* routes.  logger is taken as bound in core/auth.py.                     *)

MaxLogins == 2
MaxRequests == 2

\* settings.JWT_ACCESS_TOKEN_EXPIRE_MINUTES * 60 and
\* settings.JWT_REFRESH_TOKEN_EXPIRE_DAYS * 86400, in seconds.
ACCESS_TOKEN_EXPIRE_SECONDS == 1800
REFRESH_TOKEN_EXPIRE_SECONDS == 604800

Users == {"alice"}

\* A JWT: its claims sub, type and exp (iat is exp less the lifetime), and
\* whether it carries a signature made with JWT_SECRET_KEY.
create_access_token(user) ==
    [sub |-> user, type |-> "access", exp |-> now + ACCESS_TOKEN_EXPIRE_SECONDS,
     signed |-> TRUE]

create_refresh_token(user) ==
    [sub |-> user, type |-> "refresh", exp |-> now + REFRESH_TOKEN_EXPIRE_SECONDS,
     signed |-> TRUE]

\* A token nobody issued.
ForgedToken == [sub |-> "alice", type |-> "access", exp |-> 9999, signed |-> FALSE]

\* What a client may send as bearer token.
Presentable == tokens \cup {ForgedToken}

\* The key blacklist:{token} exists and has not expired.
Listed(token) == token \in DOMAIN blacklist /\ blacklist[token] > now

Unauthorized(detail) == [status |-> 401, detail |-> detail]
TokenAccepted == [status |-> 200, detail |-> "TokenData"]

\* Where verify_token goes after raising HTTPException(401, "Token has been
\* revoked") at the blacklist check: the raise stands inside the try whose
\* handler is except Exception, and HTTPException is an Exception, so the
\* handler logs "Redis blacklist check failed" and the function continues.
AfterRevokedRaised == "continue"

\* The blacklist check at the head of verify_token: "skipped" without a
\* client, "failed" when redis_client.get raises, "revoked" when the key is
\* found, "clean" otherwise.
BlacklistCheck(token, reachable) ==
    IF redis_client /= "client" THEN "skipped"
    ELSE IF ~reachable THEN "failed"
    ELSE IF Listed(token) THEN "revoked"
    ELSE "clean"

\* jwt.decode and the checks after it.
DecodeAndCheck(token, token_type) ==
    IF ~token.signed \/ token.exp < now
      THEN Unauthorized("Could not validate credentials")
    ELSE IF token.type /= token_type THEN Unauthorized("Invalid token type")
    ELSE TokenAccepted

verify_token(token, token_type, reachable) ==
    IF BlacklistCheck(token, reachable) = "revoked" /\ AfterRevokedRaised = "raise"
      THEN Unauthorized("Token has been revoked")
    ELSE DecodeAndCheck(token, token_type)

\* One entry of verifyLog.
VerifyEntry(token, reachable) ==
    [token |-> token, at |-> now,
     check |-> BlacklistCheck(token, reachable),
     outcome |-> verify_token(token, "access", reachable)]

\* The module-level code of core/auth.py: redis.from_url and ping.
ImportAuth(reachable) ==
    /\ redis_client = "unset"
    /\ redis_client' = IF reachable THEN "client" ELSE "none"
    /\ UNCHANGED <<tokens, blacklist, verifyLog>>
    /\ UNCHANGED <<wtype, queue, cache, graph, now, proc, pc, cur, res, wakeAt,
                   pushed, trace, popLog, returnLog, writeLog, faults, ticks>>

\* POST /login with valid credentials: create_token_pair.
login(user) ==
    /\ redis_client /= "unset"
    /\ Cardinality({t \in tokens : t.type = "access"}) < MaxLogins
    /\ tokens' = tokens \cup {create_access_token(user), create_refresh_token(user)}
    /\ UNCHANGED <<redis_client, blacklist, verifyLog>>
    /\ UNCHANGED <<wtype, queue, cache, graph, now, proc, pc, cur, res, wakeAt,
                   pushed, trace, popLog, returnLog, writeLog, faults, ticks>>

\* A request to a protected route: get_current_user calls verify_token on
\* the bearer token (the user of an accepted token exists and is active).
get_current_user(token, reachable) ==
    /\ redis_client /= "unset"
    /\ Len(verifyLog) < MaxRequests
    /\ verifyLog' = Append(verifyLog, VerifyEntry(token, reachable))
    /\ UNCHANGED <<redis_client, tokens, blacklist>>
    /\ UNCHANGED <<wtype, queue, cache, graph, now, proc, pc, cur, res, wakeAt,
                   pushed, trace, popLog, returnLog, writeLog, faults, ticks>>

\* blacklist_token: SETEX blacklist:{token} for the access-token lifetime;
\* False without a client or when SETEX raises.
blacklist_token(token, reachable) ==
    IF redis_client = "client" /\ reachable
    THEN [t \in DOMAIN blacklist \cup {token} |->
            IF t = token THEN now + ACCESS_TOKEN_EXPIRE_SECONDS ELSE blacklist[t]]
    ELSE blacklist

\* POST /logout: get_current_user on the bearer token, then blacklist_token,
\* whose return value the route does not look at.
logout(token, reachable, still_reachable) ==
    /\ redis_client /= "unset"
    /\ Len(verifyLog) < MaxRequests
    /\ verifyLog' = Append(verifyLog, VerifyEntry(token, reachable))
    /\ blacklist' = IF verify_token(token, "access", reachable) = TokenAccepted
                    THEN blacklist_token(token, still_reachable)
                    ELSE blacklist
    /\ UNCHANGED <<redis_client, tokens>>
    /\ UNCHANGED <<wtype, queue, cache, graph, now, proc, pc, cur, res, wakeAt,
                   pushed, trace, popLog, returnLog, writeLog, faults, ticks>>

AuthInit == Init /\ wtype = "lead_scoring"

AuthNext ==
    \/ \E reachable \in BOOLEAN : ImportAuth(reachable)
    \/ \E user \in Users : login(user)
    \/ \E token \in Presentable, reachable \in BOOLEAN :
         get_current_user(token, reachable)
    \/ \E token \in Presentable, reachable \in BOOLEAN, still_reachable \in BOOLEAN :
         logout(token, reachable, still_reachable)
    \/ \E d \in TimeSteps : Tick(d)

AuthSpec == AuthInit /\ [][AuthNext]_vars

---------------------------------------------------------------------------
(* Reading the logs. *)

Pushed == DOMAIN pushed

ReturnEntries ==
    UNION {{[i |-> i, k |-> k, e |-> returnLog[i][k]] : k \in DOMAIN returnLog[i]} :
           i \in Instances}

ReturnsFor(n) == {r \in ReturnEntries : r.e.n = n}

PopsOf(n) ==
    UNION {{<<i, k>> : k \in {j \in DOMAIN popLog[i] : popLog[i][j] = n}} :
           i \in Instances}

WritesFor(n) == {k \in DOMAIN writeLog : writeLog[k].n = n}

OnQueue(n) == \E k \in DOMAIN queue : queue[k].n = n

WasReturned(n) == Has(trace[n], "return")

Finished(n) ==
    \/ Has(trace[n], "return")
    \/ Has(trace[n], "raise")
    \/ Has(trace[n], "json_decode_error")

LoopStates == {"idle", "save", "graph", "backoff"}

IsObject(n) == pushed[n].json = "object"
IsMalformed(n) == pushed[n].json = "malformed"

---------------------------------------------------------------------------
(* C1 *)

---------------------------------------------------------------------------
(* C2 *)

\* C2: the loop has no terminal state.  A running instance is always at a
\* point of the loop from which its next step can be taken, and at the top
\* of the loop it polls the queue, whatever the iterations before ended in.
C2_LoopNeverExits ==
    \A i \in Instances :
      proc[i] = "running" =>
        /\ pc[i] \in LoopStates
        /\ ENABLED listen_and_process(i)
        /\ pc[i] = "idle" => ENABLED (BrpopEmpty(i) \/ TakeMalformed(i) \/ TakeEvent(i))

\* C2 witness: an instance is back at the poll after an exception reached
\* the loop, a success and an empty queue.
C2_PollingAgainAfterException ==
    \E i \in Instances :
      /\ proc[i] = "running" /\ pc[i] = "idle" /\ queue = <<>>
      /\ \E n \in Pushed : Has(popLog[i], n) /\ Has(trace[n], "raise")
      /\ \E n \in Pushed : Has(popLog[i], n) /\ WasReturned(n)
      /\ now >= wakeAt[i] /\ wakeAt[i] > 0

---------------------------------------------------------------------------
(* C3 *)

Took(i) == popLog'[i] /= popLog[i]
Taken(i) == popLog'[i][Len(popLog'[i])]

\* One step of the model seen from instance i's loop: Idle is "idle",
\* Processing is "save" and "graph", ErrorBackoff is "backoff".
LoopStep(i) ==
    /\ pc[i] /= "idle" => ~Took(i)
    /\ Took(i) /\ IsMalformed(Taken(i)) =>
         pc'[i] = "idle" /\ wakeAt'[i] = wakeAt[i] /\ now' = now
    /\ Took(i) /\ ~IsMalformed(Taken(i)) =>
         \/ pc'[i] = "save"
         \/ pc'[i] = "backoff" /\ Has(trace'[Taken(i)], "raise")
    /\ pc[i] = "idle" /\ ~Took(i) =>
         \/ pc'[i] = "idle"
         \/ pc'[i] = "backoff" /\ queue' = queue
    /\ pc[i] = "idle" /\ pc'[i] = "backoff" => wakeAt'[i] = now + BACKOFF_SECONDS
    /\ pc[i] \in {"save", "graph"} =>
         \/ pc'[i] \in {"save", "graph"}
         \/ /\ pc'[i] = "idle"
            /\ Len(returnLog'[i]) = Len(returnLog[i]) + 1
            /\ now' = now /\ wakeAt'[i] = wakeAt[i]
    /\ pc[i] = "backoff" =>
         \/ pc'[i] = "backoff"
         \/ pc'[i] = "idle" /\ now' >= wakeAt[i]

\* C3 (as the code has it): from Idle a pop leads back to Idle on an empty
\* queue and to Processing on an item; Processing returns to Idle without a
\* sleep after a success or a handled error; an exception out of the pop or
\* out of process_event goes through ErrorBackoff (5 s) before Idle; a
\* malformed payload is dropped and the loop is back in Idle without a sleep.
C3_LoopTransitions == [][\A i \in Instances : LoopStep(i)]_vars

\* C3 witness: an instance dropped a malformed payload and stands in Idle
\* having never slept.
C3_MalformedDroppedWithoutSleep ==
    \E i \in Instances : \E n \in Pushed :
      /\ Has(popLog[i], n) /\ IsMalformed(n)
      /\ proc[i] = "running" /\ pc[i] = "idle" /\ wakeAt[i] = 0

\* C3 as stated: a malformed payload goes through ErrorBackoff.
C3_MalformedGoesThroughBackoff ==
    [][\A i \in Instances :
         Took(i) /\ IsMalformed(Taken(i)) => pc'[i] = "backoff"]_vars

---------------------------------------------------------------------------
(* C4 *)

\* C4: an item that is not valid JSON is dropped: process_event is not
\* called for it, no cache or graph write is made for it and nothing is
\* returned for it, and the instance that dropped it is still in the loop
\* and takes the next item of the queue.
C4_MalformedItemDropped ==
    \A n \in Pushed :
      IsMalformed(n) =>
        /\ trace[n] \in {<<>>, <<"pop", "json_decode_error">>}
        /\ WritesFor(n) = {} /\ ReturnsFor(n) = {}
        /\ \A i \in Instances :
             Has(popLog[i], n) /\ proc[i] = "running" =>
               /\ pc[i] \in LoopStates
               /\ cur[i].n /= n
               /\ pc[i] = "idle" /\ queue /= <<>> =>
                    ENABLED (TakeMalformed(i) \/ TakeEvent(i))

\* C4 witness (scenario D): a malformed payload, then a valid lead envelope;
\* the same instance dropped the first and processed and saved the second.
C4_ScenarioD ==
    /\ Len(pushed) = 2
    /\ IsMalformed(1)
    /\ pushed[2] = Envelope("lead_scoring", [name |-> "Ann", email |-> "ann@gmail.com"])
    /\ popLog["w1"] = <<1, 2>>
    /\ trace[1] = <<"pop", "json_decode_error">>
    /\ \E r \in ReturnsFor(2) : IsProcessedResult(r.e.value) /\ r.e.saved
    /\ \E key \in DOMAIN cache : cache[key].value.type = "lead_scoring"

---------------------------------------------------------------------------
(* C5 *)

\* C5: an instance holds at most one unfinished event; it returns results
\* in the order in which it popped the events; it pops in ingestion order,
\* and an instance alone on the queue pops every event in ingestion order.
C5_SequentialFifo ==
    \A i \in Instances :
      /\ Cardinality({n \in Pushed : Has(popLog[i], n) /\ ~Finished(n)}) <= 1
      /\ SelectSeq(popLog[i], WasReturned) = [k \in DOMAIN returnLog[i] |-> returnLog[i][k].n]
      /\ \A j, k \in DOMAIN popLog[i] : j < k => popLog[i][j] < popLog[i][k]
      /\ (\A o \in Instances \ {i} : popLog[o] = <<>>) =>
           popLog[i] = [k \in DOMAIN popLog[i] |-> k]

\* C5 witness: one instance popped two events and returned a result for
\* each, in that order.
C5_TwoEventsInOrder ==
    /\ popLog["w1"] = <<1, 2>>
    /\ Len(returnLog["w1"]) = 2
    /\ returnLog["w1"][1].n = 1 /\ returnLog["w1"][2].n = 2

---------------------------------------------------------------------------
(* C6 *)

Count(seq, x) == Cardinality({k \in DOMAIN seq : seq[k] = x})

\* C6 (as the code has it): an event is popped at most once, by one
\* instance, and is on the queue exactly until then; process_event runs at
\* most once for it, with at most one cache write and one returned result.
\* An instance killed while it holds an event leaves it off the queue with
\* no node in the graph and nothing returned; its result is in no cache
\* write if the instance stopped before save_to_database, and has been
\* written to the cache if it stopped between the cache and the graph write.
C6_ConsumedAtMostOnce ==
    \A n \in Pushed :
      /\ Cardinality(PopsOf(n)) <= 1
      /\ Cardinality({k \in DOMAIN queue : queue[k].n = n}) <= 1
      /\ OnQueue(n) /= (PopsOf(n) /= {})
      /\ Count(trace[n], "process_event") <= 1
      /\ Cardinality(WritesFor(n)) <= 1
      /\ Cardinality(ReturnsFor(n)) <= 1
      /\ \A i \in Instances :
           proc[i] = "killed" /\ cur[i].n = n =>
             /\ ~OnQueue(n)
             /\ ReturnsFor(n) = {}
             /\ ~Has(trace[n], "merge")
             /\ pc[i] = "save" => WritesFor(n) = {}
             /\ pc[i] = "graph" /\ Has(trace[n], "setex") =>
                  \E k \in WritesFor(n) : writeLog[k].value = res[i]

\* C6 witness: an instance was killed between its cache write and its graph
\* write; the event is off the queue and its result is in the cache.
C6_KilledAfterCacheWrite ==
    \E i \in Instances :
      /\ proc[i] = "killed" /\ pc[i] = "graph"
      /\ ~OnQueue(cur[i].n)
      /\ \E key \in DOMAIN cache : cache[key].value = res[i]

\* C6 as stated: an instance that stops mid-processing leaves its event
\* neither on the queue nor with a result.
C6_StoppedInstanceLeavesNoResult ==
    \A i \in Instances :
      proc[i] = "killed" =>
        /\ ~OnQueue(cur[i].n)
        /\ WritesFor(cur[i].n) = {}

---------------------------------------------------------------------------
(* C7 *)

LacksNonEmpty(data, fields) == \E f \in fields : f \notin DOMAIN data \/ data[f] = ""

\* The events C7 names: a lead without a non-empty name and email, a chat
\* event without a non-empty message and user, a blockchain event without
\* an event_type key.
NamedInvalid(wt, data) ==
    CASE wt = "lead_scoring" -> LacksNonEmpty(data, {"name", "email"})
      [] wt = "chat_analysis" -> LacksNonEmpty(data, {"message", "user"})
      [] wt = "blockchain_events" -> "event_type" \notin DOMAIN data

\* C7: such an event yields an ErrorResult carrying the validation message
\* and the data as posted; no analysis step and no graph write runs for it,
\* validation runs once, and it is popped once and never back on the queue.
\* Every other event passes validation.
C7_InvalidDataShortCircuits ==
    \A n \in Pushed :
      IsObject(n) /\ "data" \in DOMAIN pushed[n].obj =>
        LET data == pushed[n].obj.data IN
          IF NamedInvalid(wtype, data)
          THEN /\ \A k \in DOMAIN trace[n] :
                    trace[n][k] \notin AnalysisSteps \cup {"merge", "merge_failed"}
               /\ Count(trace[n], "validate_event") <= 1
               /\ Cardinality(PopsOf(n)) <= 1
               /\ PopsOf(n) /= {} => ~OnQueue(n)
               /\ \A r \in ReturnsFor(n) :
                    /\ IsErrorResult(r.e.value)
                    /\ r.e.value.error = Err(ValidationMessage(wtype), "")
                    /\ r.e.value.original_data = data
                    /\ r.e.value.id \notin DOMAIN graph
          ELSE \A r \in ReturnsFor(n) :
                 "error" \in DOMAIN r.e.value =>
                   r.e.value.error /= Err(ValidationMessage(wtype), "")

\* C7 witness: an invalid event was popped and its ErrorResult returned and
\* saved.
C7_InvalidEventReturned ==
    \E n \in Pushed :
      /\ IsObject(n) /\ "data" \in DOMAIN pushed[n].obj
      /\ NamedInvalid(wtype, pushed[n].obj.data)
      /\ \E r \in ReturnsFor(n) : r.e.saved

---------------------------------------------------------------------------
(* C8 *)

LaterWrite(k, key) == \E j \in DOMAIN writeLog : j > k /\ writeLog[j].key = key

\* C8 (as the code has it): every ErrorResult returned has the id
\* {prefix}_error_{second} and went through exactly one cache write attempt
\* under processed:{worker_type}:{id}, and never to the graph.  The cache
\* holds it if that write succeeded, until its TTL ends or another result
\* with the same id (an error of the same second) is written over it.
C8_ErrorResultsWrittenUnderKeyScheme ==
    \A r \in ReturnEntries :
      IsErrorResult(r.e.value) =>
        LET n == r.e.n
            v == r.e.value
            key == <<"processed", wtype, v.id>>
        IN /\ v.id.prefix = IdPrefix(wtype) /\ v.id.infix = "error"
           /\ Count(trace[n], "setex") + Count(trace[n], "setex_failed") = 1
           /\ r.e.saved = Has(trace[n], "setex")
           /\ v.id \notin DOMAIN graph
           /\ r.e.saved =>
                \E k \in WritesFor(n) :
                  /\ writeLog[k].key = key /\ writeLog[k].value = v
                  /\ now < writeLog[k].at + CACHE_TTL /\ ~LaterWrite(k, key) =>
                       CacheGet(cache, key, now) = v

\* C8 witness: an ErrorResult was returned and is read back from the cache
\* under its key.
C8_ErrorResultReadable ==
    \E r \in ReturnEntries :
      /\ IsErrorResult(r.e.value)
      /\ r.e.saved
      /\ CacheGet(cache, <<"processed", wtype, r.e.value.id>>, now) = r.e.value

\* C8 as stated: the cache holds a record of every attempt (here only of
\* those whose write succeeded and whose TTL has not ended).
C8_CompleteAuditTrail ==
    \A r \in ReturnEntries :
      \A k \in WritesFor(r.e.n) :
        now < writeLog[k].at + CACHE_TTL =>
          CacheGet(cache, <<"processed", wtype, r.e.value.id>>, now) = r.e.value

---------------------------------------------------------------------------
(* C9 *)

WritesTo(key) == {k \in DOMAIN writeLog : writeLog[k].key = key}
LastWrite(key) == CHOOSE k \in WritesTo(key) : \A j \in WritesTo(key) : j <= k

\* C9: every write goes to processed:{worker_type}:{result.id}; the cache
\* holds, per key, the value of the latest write with an expiry 3600 s after
\* it, whatever was there before; a key is read back until 3600 s after its
\* latest write and is absent from then on.
C9_CacheHoldsLatestWriteWithTtl ==
    /\ DOMAIN cache = {writeLog[k].key : k \in DOMAIN writeLog}
    /\ \A k \in DOMAIN writeLog :
         writeLog[k].key = <<"processed", wtype, writeLog[k].value.id>>
    /\ \A key \in DOMAIN cache :
         LET w == writeLog[LastWrite(key)] IN
           /\ cache[key] = [value |-> w.value, expires |-> w.at + CACHE_TTL]
           /\ now - w.at < CACHE_TTL => CacheGet(cache, key, now) = w.value
           /\ now - w.at >= CACHE_TTL => CacheGet(cache, key, now) = NoResult

\* C9 witness: a key was written twice with different values and the cache
\* holds the second.
C9_EntryOverwritten ==
    \E j, k \in DOMAIN writeLog :
      /\ j < k
      /\ writeLog[j].key = writeLog[k].key
      /\ writeLog[j].value /= writeLog[k].value
      /\ cache[writeLog[k].key].value = writeLog[k].value

---------------------------------------------------------------------------
(* C10 *)

\* C10 as stated: what process_event returns tells the loop whether the
\* result was persisted (no outcome is returned both for a saved and for an
\* unsaved result).
C10_SaveFailureVisibleInOutcome ==
    \A r1, r2 \in ReturnEntries :
      r1.e.value = r2.e.value => r1.e.saved = r2.e.saved

\* The part of C10 the code keeps: after a failed cache write the result is
\* returned and the instance is in the loop.
C10_LoopSurvivesSaveFailure ==
    \A n \in Pushed :
      Has(trace[n], "setex_failed") =>
        \A i \in Instances :
          Has(popLog[i], n) /\ proc[i] = "running" =>
            pc[i] \in LoopStates /\ ENABLED listen_and_process(i)

---------------------------------------------------------------------------
(* C11 *)

\* C11: when the graph upsert of an event fails, process_event returns the
\* ProcessedResult it built (no ErrorResult, no exception to the loop, so no
\* backoff for it), nothing is written to the graph for it by that call,
\* and the cache entry written for the result is the one the cache holds
\* unless a later result was written under the same key.
C11_GraphFailureDoesNotFailPipeline ==
    \A n \in Pushed :
      Has(trace[n], "merge_failed") =>
        /\ ~Has(trace[n], "raise") /\ ~Has(trace[n], "merge")
        /\ trace[n][Len(trace[n])] = "return"
        /\ Cardinality(ReturnsFor(n)) = 1
        /\ \A r \in ReturnsFor(n) :
             /\ IsProcessedResult(r.e.value) /\ ~IsErrorResult(r.e.value)
             /\ r.e.saved =>
                  \E k \in WritesFor(n) :
                    /\ writeLog[k].value = r.e.value
                    /\ ~LaterWrite(k, writeLog[k].key) =>
                         cache[writeLog[k].key].value = r.e.value

\* C11 witness: the graph upsert of a saved result failed; the result was
\* returned, is read from the cache and has no node in the graph.
C11_GraphFailedResultCached ==
    \E r \in ReturnEntries :
      /\ Has(trace[r.e.n], "merge_failed")
      /\ r.e.saved
      /\ CacheGet(cache, CacheKey(wtype, r.e.value.id), now) = r.e.value
      /\ r.e.value.id \notin DOMAIN graph

---------------------------------------------------------------------------
(* C12 *)

SameKind(v1, v2) == IsErrorResult(v1) = IsErrorResult(v2)

\* C12: an id is the prefix (with _error for an ErrorResult) and the second
\* in which the result was built.  Two results of the same kind built in
\* the same second, by one instance or by two, have the same id and the
\* same cache key; of their cache writes the later one replaces the earlier
\* one, so the key reads as the latest value written and as no other.
C12_SameSecondSameKey ==
    \A r1, r2 \in ReturnEntries :
      LET v1 == r1.e.value
          v2 == r2.e.value
      IN /\ v1.id.prefix = IdPrefix(wtype)
         /\ v1.id.infix = (IF IsErrorResult(v1) THEN "error" ELSE "")
         /\ r1 /= r2 /\ SameKind(v1, v2) /\ v1.id.ts = v2.id.ts =>
              /\ v1.id = v2.id
              /\ CacheKey(wtype, v1.id) = CacheKey(wtype, v2.id)
              /\ \A k1 \in WritesFor(r1.e.n), k2 \in WritesFor(r2.e.n) :
                   k1 < k2 =>
                     LET key == writeLog[k1].key IN
                       /\ writeLog[k2].key = key
                       /\ cache[key].value = writeLog[LastWrite(key)].value
                       /\ LastWrite(key) >= k2
                       /\ v1 /= writeLog[LastWrite(key)].value =>
                            CacheGet(cache, key, now) /= v1

\* C12 witness: two instances each built a result in the same second; both
\* wrote it under the same key and only the later one is read back.
C12_TwoInstancesCollide ==
    \E j, k \in DOMAIN writeLog :
      /\ j < k
      /\ writeLog[j].key = writeLog[k].key
      /\ writeLog[j].value /= writeLog[k].value
      /\ Has(popLog["w1"], writeLog[j].n) /\ Has(popLog["w2"], writeLog[k].n)
      /\ CacheGet(cache, writeLog[k].key, now) = writeLog[k].value

---------------------------------------------------------------------------
(* C13 *)

\* C13 (as the code has it): two cache writes go to the same key exactly
\* when the two results have the same id, that is the same kind and the
\* same second; a key is then written again and holds the later result.
\* What the cache holds under a key is always one whole written result.
C13_KeyRewrittenOnlyOnSameId ==
    /\ \A j, k \in DOMAIN writeLog :
         (writeLog[j].key = writeLog[k].key) = (writeLog[j].value.id = writeLog[k].value.id)
    /\ \A j, k \in DOMAIN writeLog :
         writeLog[j].value.id = writeLog[k].value.id =>
           SameKind(writeLog[j].value, writeLog[k].value)
    /\ \A key \in DOMAIN cache :
         \E k \in WritesTo(key) : cache[key].value = writeLog[k].value

\* C13 witness: one instance wrote two different results under one key.
C13_OneInstanceRewritesKey ==
    \E j, k \in DOMAIN writeLog :
      /\ j < k
      /\ writeLog[j].key = writeLog[k].key
      /\ writeLog[j].value /= writeLog[k].value
      /\ Has(popLog["w1"], writeLog[j].n) /\ Has(popLog["w1"], writeLog[k].n)
      /\ popLog["w2"] = <<>>

\* C13 as stated: no cache key is written a second time with a different
\* result.
C13_WriteOncePerKey ==
    \A j, k \in DOMAIN writeLog :
      writeLog[j].key = writeLog[k].key => writeLog[j].value = writeLog[k].value

---------------------------------------------------------------------------
(* C14 *)

AiFailed(n) == Has(trace[n], "fallback_scoring")

ValidLead(n) ==
    /\ wtype = "lead_scoring"
    /\ IsObject(n) /\ "data" \in DOMAIN pushed[n].obj
    /\ ~NamedInvalid("lead_scoring", pushed[n].obj.data)

\* C14 as stated: whenever the AI call fails for a valid lead, the result is
\* a ProcessedResult of type lead_scoring whose analysis is the rule-based
\* scorer's output.
C14_AiFailureYieldsFallbackResult ==
    \A n \in Pushed :
      ValidLead(n) /\ AiFailed(n) =>
        \A r \in ReturnsFor(n) :
          /\ r.e.value.type = "lead_scoring"
          /\ "error" \notin DOMAIN r.e.value

\* What holds of C14: for a valid lead whose email, company_size, title and
\* source are strings where present, a failed AI call ends in the
\* ProcessedResult built on the rule-based scorer's output, with no raise.
C14_FallbackOnStringFields ==
    \A n \in Pushed :
      ValidLead(n) /\ AiFailed(n) /\ ~FallbackRaises(pushed[n].obj.data) =>
        /\ ~Has(trace[n], "raise")
        /\ \A r \in ReturnsFor(n) :
             /\ r.e.value.type = "lead_scoring"
             /\ r.e.value.ai_analysis = fallback_scoring(pushed[n].obj.data)
             /\ r.e.value.lead_score = FallbackScore(pushed[n].obj.data)

---------------------------------------------------------------------------
(* C15 *)

LeadResults == {r \in ReturnEntries : r.e.value.type = "lead_scoring"}

\* C15: in every lead ProcessedResult the category is hot exactly for a
\* score of 80 or more, warm exactly for 60..79 and cold exactly below 60,
\* whether the analysis came from the AI or from the fallback; after a
\* failed AI call the score and the category inside the analysis JSON are
\* those of the result.
C15_CategoryMatchesScore ==
    \A r \in LeadResults :
      LET v == r.e.value IN
        /\ v.category \in {"hot", "warm", "cold"}
        /\ (v.category = "hot") = (v.lead_score >= 80)
        /\ (v.category = "warm") = (v.lead_score >= 60 /\ v.lead_score < 80)
        /\ (v.category = "cold") = (v.lead_score < 60)
        /\ AiFailed(r.e.n) =>
             /\ v.ai_analysis.score = v.lead_score
             /\ v.ai_analysis.category = v.category

\* C15 witness: the AI call failed for a lead whose rule-based points sum
\* to 110; the score is clamped to 100 and result and analysis say hot.
C15_FallbackHotAtClamp ==
    \E r \in LeadResults :
      /\ AiFailed(r.e.n)
      /\ r.e.value.lead_score = 100
      /\ r.e.value.category = "hot"
      /\ r.e.value.ai_analysis.category = "hot"

---------------------------------------------------------------------------
(* C16 *)

\* C16 as stated: the lead_score of every lead ProcessedResult is in 0..100.
C16_ScoreInRange ==
    \A r \in LeadResults : r.e.value.lead_score \in 0 .. 100

\* What holds of C16: the score is in 0..100 when it comes from the
\* rule-based fallback or is the default 50; the score of an AI answer is
\* taken as the answer gives it.
C16_FallbackAndDefaultInRange ==
    \A r \in LeadResults :
      LET v == r.e.value IN
        /\ AiFailed(r.e.n) => v.lead_score \in 0 .. 100
        /\ ~v.ai_analysis.has_score /\ ~v.ai_analysis.regex => v.lead_score = DEFAULT_SCORE
        /\ (~AiFailed(r.e.n) /\ v.ai_analysis.kind = "json"
            /\ v.ai_analysis.has_score /\ v.ai_analysis.int_ok)
             => v.lead_score = v.ai_analysis.score

---------------------------------------------------------------------------
(* C17 *)

\* The key under which each sub-analyzer puts the id of what it analysed.
AnalyzerIdKeys == {"sale_id", "transfer_id", "swap_id"}

OwnIdKey(event_type) ==
    CASE event_type = "nft_sale" -> "sale_id"
      [] event_type = "token_transfer" -> "transfer_id"
      [] event_type = "defi_swap" -> "swap_id"

TypedBlockchainEvent(n) ==
    /\ wtype = "blockchain_events"
    /\ IsObject(n) /\ "data" \in DOMAIN pushed[n].obj
    /\ "event_type" \in DOMAIN pushed[n].obj.data

\* C17: a blockchain event whose event_type is none of nft_sale,
\* token_transfer, defi_swap ends in the ErrorResult "Unknown blockchain
\* event type" with no sub-analyzer run; for each of the three types the
\* result is the output of that type's sub-analyzer and of no other.
C17_DispatchOnEventType ==
    \A n \in Pushed :
      TypedBlockchainEvent(n) =>
        LET et == pushed[n].obj.data.event_type IN
          \A r \in ReturnsFor(n) :
            LET v == r.e.value IN
              IF et \in {"nft_sale", "token_transfer", "defi_swap"}
              THEN /\ v.type = "blockchain_event"
                   /\ DOMAIN v \cap AnalyzerIdKeys = {OwnIdKey(et)}
                   /\ v[OwnIdKey(et)].prefix = et
                   /\ \A k \in DOMAIN trace[n] :
                        trace[n][k] \in AnalysisSteps => trace[n][k] = et
              ELSE /\ IsErrorResult(v)
                   /\ v.error = Err("Unknown blockchain event type", et)
                   /\ DOMAIN v \cap AnalyzerIdKeys = {}
                   /\ \A k \in DOMAIN trace[n] : trace[n][k] \notin AnalysisSteps

\* C17 witness: an event of type mint ended in the ErrorResult and a
\* token_transfer in the output of the transfer analyzer.
C17_UnknownAndKnownTypeReturned ==
    \E n1, n2 \in Pushed :
      /\ TypedBlockchainEvent(n1) /\ TypedBlockchainEvent(n2)
      /\ pushed[n1].obj.data.event_type = "mint"
      /\ pushed[n2].obj.data.event_type = "token_transfer"
      /\ \E r \in ReturnsFor(n1) : IsErrorResult(r.e.value)
      /\ \E r \in ReturnsFor(n2) : "transfer_id" \in DOMAIN r.e.value

---------------------------------------------------------------------------
(* C18 *)

BlockchainResults ==
    {r \in ReturnEntries :
       /\ wtype = "blockchain_events"
       /\ IsObject(r.e.n) /\ "data" \in DOMAIN pushed[r.e.n].obj
       /\ Get(pushed[r.e.n].obj.data, "event_type", "unknown") \in KnownEventTypes}

\* The lookup of field f of the event behind r failed.
LookupFailed(r, f) ==
    LET data == pushed[r.e.n].obj.data IN
      f \in DOMAIN data /\ Unhashable(data[f])

\* The sub-analyzer behind r got past its float() conversions.
Enriched(r) == "error" \notin DOMAIN r.e.value

\* C18: a failed market-data, token or transaction lookup leaves zeroed or
\* neutral data in the result (floor price 0, volume 0, trend neutral;
\* price 0 and USD value 0; status unknown); the event still ends in a
\* result of type blockchain_event, never in an ErrorResult or the backoff.
C18_LookupFailureYieldsNeutralData ==
    \A r \in BlockchainResults :
      LET v == r.e.value
          et == pushed[r.e.n].obj.data.event_type
      IN
        /\ (\E f \in {"collection", "token", "token_in", "token_out", "signature"} :
              LookupFailed(r, f))
             => IsProcessedResult(v) /\ ~IsErrorResult(v)
        /\ (et = "nft_sale" /\ Enriched(r) /\ LookupFailed(r, "collection"))
             => /\ v.market_data = [floor_tenths |-> 0, volume_24h |-> 0,
                                    trend |-> "neutral"]
                /\ v.analysis.floor_tenths = 0
                /\ v.analysis.volume_24h = 0
                /\ v.analysis.market_trend = "neutral"
        /\ (et = "nft_sale" /\ Enriched(r) /\ LookupFailed(r, "signature"))
             => v.transaction_details.status = "unknown"
        /\ (et = "token_transfer" /\ Enriched(r) /\ LookupFailed(r, "token"))
             => v.token_info.price_cents = 0 /\ v.usd_value_cents = 0
        /\ (et = "defi_swap" /\ Enriched(r) /\ LookupFailed(r, "token_in"))
             => v.token_in_info.price_cents = 0 /\ v.analysis.usd_value_in_cents = 0
        /\ (et = "defi_swap" /\ Enriched(r) /\ LookupFailed(r, "token_out"))
             => v.token_out_info.price_cents = 0 /\ v.analysis.usd_value_out_cents = 0

\* C18 witness: an NFT sale whose collection and signature lookups both
\* failed was returned as a blockchain_event with the neutral market data.
C18_SaleWithFailedLookupsReturned ==
    \E r \in BlockchainResults :
      /\ LookupFailed(r, "collection") /\ LookupFailed(r, "signature")
      /\ Enriched(r)
      /\ r.e.value.type = "blockchain_event"
      /\ r.e.value.market_data.trend = "neutral"
      /\ r.e.value.transaction_details.status = "unknown"

---------------------------------------------------------------------------
(* C19 *)

ChatResults ==
    {r \in ReturnEntries : wtype = "chat_analysis" /\ r.e.value.type = "chat_analysis"}

Flagged(v, flag) ==
    \E k \in DOMAIN v.moderation.flags : v.moderation.flags[k] = flag

\* toxic_count / max(1, word_count) * 10 > 0.3 for the message of result v.
RawToxicityAboveThreshold(v) ==
    LET words == MessageFeatures(v.message).words IN
      100 * CountIn(words, toxic_words) > 3 * Max(1, Len(words))

\* C19 (amended): toxic_content is flagged exactly when the toxicity score
\* before rounding is above 0.3 (the score of the result, rounded to three
\* decimals, is then at least 0.3) and spam_content exactly when the spam
\* score is above 0.5; requires_human_review holds exactly when a flag is
\* set and auto_moderate exactly when the toxicity level is high, so that
\* auto_moderate implies requires_human_review and the toxic_content flag.
C19_FlagsFollowUnroundedScores ==
    \A r \in ChatResults :
      LET v == r.e.value IN
        /\ Flagged(v, "toxic_content") <=> RawToxicityAboveThreshold(v)
        /\ Flagged(v, "toxic_content") => v.analysis.toxicity.score_milli >= 300
        /\ v.analysis.toxicity.score_milli > 300 => Flagged(v, "toxic_content")
        /\ Flagged(v, "spam_content") <=> v.analysis.spam.score_milli > 500
        /\ v.moderation.requires_human_review <=> v.moderation.flags /= <<>>
        /\ v.moderation.auto_moderate <=> v.analysis.toxicity.level = "high"
        /\ v.moderation.auto_moderate =>
             v.moderation.requires_human_review /\ Flagged(v, "toxic_content")

\* C19 witness: a spam-only message was flagged for review without
\* auto-moderation, its toxicity level being none.
C19_SpamAloneNotAutoModerated ==
    \E r \in ChatResults :
      /\ Flagged(r.e.value, "spam_content")
      /\ ~Flagged(r.e.value, "toxic_content")
      /\ r.e.value.moderation.requires_human_review
      /\ ~r.e.value.moderation.auto_moderate
      /\ r.e.value.analysis.toxicity.level = "none"

\* C19 as stated: toxic_content is flagged exactly when the toxicity score
\* of the result is above 0.3.
C19_ToxicFlagIffReportedScoreAbove ==
    \A r \in ChatResults :
      Flagged(r.e.value, "toxic_content")
        <=> r.e.value.analysis.toxicity.score_milli > 300

---------------------------------------------------------------------------
(* C20 *)

\* Serial n was pushed by the ingestion endpoint: the envelope of an event.
Ingested(n) ==
    n \in Pushed /\ IsObject(n) /\ "data" \in DOMAIN pushed[n].obj

\* C20: with workers that keep running, every ingested event is eventually
\* popped by an instance of its type and eventually has its result returned
\* by process_event, whatever lies ahead of it on the queue and whichever
\* polls fail in between.
C20_IngestedEventuallyReturned ==
    \A n \in Serials :
      Ingested(n) ~> (PopsOf(n) /= {} /\ WasReturned(n))

\* C20 witness: an event ingested behind a payload that sent the loop into
\* its backoff has had its result returned.
C20_ReturnedAfterBackoff ==
    /\ 2 \in Pushed /\ pushed[1].json = "scalar"
    /\ Has(trace[1], "raise")
    /\ Ingested(2) /\ WasReturned(2)

---------------------------------------------------------------------------
(* C21 *)

\* A graph write was attempted for the event with serial n.
GraphAttempted(n) == Has(trace[n], "merge") \/ Has(trace[n], "merge_failed")

\* C21: every result written to the cache that carries an error field is an
\* ErrorResult (type ending in _error, id with the _error_ infix, no
\* analysis field, no graph write attempted for its event), and a result of
\* type lead_scoring, blockchain_event or chat_analysis carries no error
\* field.
C21_ErrorFieldOnlyOnErrorResults ==
    \A k \in DOMAIN writeLog :
      LET v == writeLog[k].value IN
        /\ "error" \in DOMAIN v =>
             /\ IsErrorResult(v)
             /\ v.id.infix = "error"
             /\ "analysis" \notin DOMAIN v
             /\ ~GraphAttempted(writeLog[k].n)
        /\ IsProcessedResult(v) => "error" \notin DOMAIN v

\* What holds of the code: the results built by the except branch of
\* process_event are as C21 says, and the lead and chat results carry no
\* error field.
C21_ExceptBranchResultsAreErrorResults ==
    \A k \in DOMAIN writeLog :
      LET v == writeLog[k].value IN
        /\ IsErrorResult(v) =>
             /\ "error" \in DOMAIN v /\ v.id.infix = "error"
             /\ "analysis" \notin DOMAIN v
             /\ ~GraphAttempted(writeLog[k].n)
        /\ v.type \in {"lead_scoring", "chat_analysis"} => "error" \notin DOMAIN v

---------------------------------------------------------------------------
(* C22 *)

\* C22: every popped payload that json.loads decodes, an object or not, ends
\* with one result written to the cache for it, and the exception it may
\* cause never reaches the loop (no backoff for it).
C22_DecodedPayloadYieldsCachedResult ==
    \A n \in Pushed :
      (json_loads_ok(pushed[n]) /\ Finished(n)) =>
        /\ Cardinality(WritesFor(n)) = 1
        /\ ~Has(trace[n], "raise")

---------------------------------------------------------------------------
(* C23 *)

CacheAttempts(n) == Count(trace[n], "setex") + Count(trace[n], "setex_failed")

GraphAttempts(n) == Count(trace[n], "merge") + Count(trace[n], "merge_failed")

\* process_event was called for serial n and has returned or raised.
CallEnded(n) == Has(trace[n], "process_event") /\ Finished(n)

\* In trace[n] a cache write attempt comes before every graph write attempt.
CacheBeforeGraph(n) ==
    \A g \in DOMAIN trace[n] :
      trace[n][g] \in {"merge", "merge_failed"} =>
        \E c \in 1..(g - 1) : trace[n][c] \in {"setex", "setex_failed"}

\* C23: a call of process_event makes exactly one cache write attempt and at
\* most one graph write attempt, the graph attempt after the cache attempt
\* and for a ProcessedResult only; an event never has a success result and
\* an error result both written.
C23_OneCacheAttemptPerCall ==
    \A n \in Pushed :
      /\ CallEnded(n) => CacheAttempts(n) = 1
      /\ GraphAttempts(n) <= 1
      /\ CacheBeforeGraph(n)
      /\ GraphAttempts(n) = 1 => \A r \in ReturnsFor(n) : IsProcessedResult(r.e.value)
      /\ ~\E j, k \in WritesFor(n) :
            IsProcessedResult(writeLog[j].value) /\ IsErrorResult(writeLog[k].value)

\* What holds of the code: the same with at most one cache write attempt per
\* call, and exactly one for every call that returns.
C23_AtMostOneCacheAttemptPerCall ==
    \A n \in Pushed :
      /\ CacheAttempts(n) <= 1
      /\ WasReturned(n) => CacheAttempts(n) = 1
      /\ GraphAttempts(n) <= 1
      /\ CacheBeforeGraph(n)
      /\ GraphAttempts(n) = 1 => \A r \in ReturnsFor(n) : IsProcessedResult(r.e.value)
      /\ ~\E j, k \in WritesFor(n) :
            IsProcessedResult(writeLog[j].value) /\ IsErrorResult(writeLog[k].value)

---------------------------------------------------------------------------
(* C24 *)

\* The points the claim gives to the field values of LeadData.
ClaimedEmailPoints(email) ==
    CASE email = "ann@gmail.com" -> -10
      [] email = "dean@uni.edu" -> 15
      [] OTHER -> 5

ClaimedSizePoints(company_size) ==
    CASE company_size \in {"1000+ Employees", "Medium Enterprise"} -> 20
      [] company_size = "Medium" -> 10
      [] OTHER -> 0

ClaimedTitlePoints(title) == IF title = "VP of Sales" THEN 15 ELSE 0

ClaimedSourcePoints(source) ==
    CASE source = "linkedin" -> 10
      [] source = "cold_email" -> -5
      [] OTHER -> 0

\* C24: when the rule-based scorer has run, the score of the result is
\* clamp(50 + e + s + t + r, 0, 100) with e, s, t, r as the claim lists
\* them; it is never below 35, and a business email with '1000+ Employees',
\* 'VP of Sales' and linkedin scores 100 and is hot.
C24_FallbackScoreFormula ==
    \A r \in LeadResults :
      AiFailed(r.e.n) =>
        LET d == pushed[r.e.n].obj.data
            v == r.e.value
            sum == 50 + ClaimedEmailPoints(d.email)
                      + ClaimedSizePoints(d.company_size)
                      + ClaimedTitlePoints(d.title)
                      + ClaimedSourcePoints(d.source)
        IN /\ v.lead_score = (IF sum > 100 THEN 100 ELSE IF sum < 0 THEN 0 ELSE sum)
           /\ v.lead_score >= 35
           /\ (d.email = "bob@acme.com" /\ d.company_size = "1000+ Employees"
               /\ d.title = "VP of Sales" /\ d.source = "linkedin")
                => v.lead_score = 100 /\ v.category = "hot"

\* C24 witness: the scenario of the claim was scored by the fallback.
C24_BusinessVpLinkedinScored ==
    \E r \in LeadResults :
      /\ AiFailed(r.e.n)
      /\ pushed[r.e.n].obj.data =
           [name |-> "Bob", email |-> "bob@acme.com",
            company_size |-> "1000+ Employees", title |-> "VP of Sales",
            source |-> "linkedin"]
      /\ r.e.value.lead_score = 100

---------------------------------------------------------------------------
(* C25 *)

\* The lead results whose analysis is a text the AI returned.
AnsweredResults == {r \in LeadResults : ~AiFailed(r.e.n)}

\* C25 (amended): for a text that parses as a JSON object the score is the
\* integer value of its score field, 50 when the field is absent; when
\* parsing fails, when the JSON value is no object, or when the integer
\* conversion fails, it is the first integer the pattern "score": <digits>
\* matches in the text; 50 when that does not match either.
C25_ThreeStepChain ==
    \A r \in AnsweredResults :
      LET a == r.e.value.ai_analysis
          lead_score == r.e.value.lead_score
          first_step_fails ==
              \/ a.kind \in {"text", "json_other"}
              \/ a.kind = "json" /\ a.has_score /\ ~a.int_ok
      IN /\ (a.kind = "json" /\ a.has_score /\ a.int_ok) => lead_score = a.score
         /\ (a.kind = "json" /\ ~a.has_score) => lead_score = 50
         /\ (first_step_fails /\ a.regex) => lead_score = a.regex_score
         /\ (first_step_fails /\ ~a.regex) => lead_score = 50

\* C25 witness: the answer {"score": null, "detail": {"score": 70}} was
\* scored 70 by the pattern after int(None) had raised.
C25_RegexAfterFailedConversion ==
    \E r \in AnsweredResults :
      /\ r.e.value.ai_analysis.kind = "json"
      /\ r.e.value.ai_analysis.has_score /\ ~r.e.value.ai_analysis.int_ok
      /\ r.e.value.ai_analysis.regex
      /\ r.e.value.lead_score = 70

\* C25 as stated: a text that parses as JSON is scored by its score field
\* (50 when it has none) unless the integer conversion fails.
C25_ParsedTextScoredByField ==
    \A r \in AnsweredResults :
      LET a == r.e.value.ai_analysis IN
        (a.kind \in {"json", "json_other"} /\ ~(a.has_score /\ ~a.int_ok)) =>
          r.e.value.lead_score = (IF a.has_score THEN a.score ELSE 50)

---------------------------------------------------------------------------
(* C26 *)

\* The results of process_nft_sale that got past float(price).
SaleResults ==
    {r \in BlockchainResults :
       "sale_id" \in DOMAIN r.e.value /\ "error" \notin DOMAIN r.e.value}

\* (price - floor_price) / floor_price * 100 as the fraction num / den for
\* the price and the floor of sale result v, 0 when the floor is 0.
ClaimedPremium(v) ==
    LET price_e4 == PriceE4(v.price)
        floor_e4 == v.market_data.floor_tenths * 1000
    IN IF floor_e4 > 0
       THEN [num |-> (price_e4 - floor_e4) * 100, den |-> floor_e4]
       ELSE [num |-> 0, den |-> 1]

ClaimedCategory(p) ==
    CASE p.num > 50 * p.den -> "premium"
      [] p.num > 0 /\ p.num <= 50 * p.den -> "above_floor"
      [] p.num > (-20) * p.den /\ p.num <= 0 -> "near_floor"
      [] OTHER -> "below_floor"

\* C26 (amended): the premium is (price - floor_price) / floor_price * 100
\* for a floor above 0 and 0 otherwise; the result carries it rounded to two
\* decimals, and the category is decided on the value before rounding:
\* premium above 50, above_floor in (0, 50], near_floor in (-20, 0],
\* below_floor otherwise.  Price 15 on floor 10 gives 50 and above_floor; a
\* floor of 0 gives 0 and near_floor.
C26_CategoryOnUnroundedPremium ==
    /\ \A r \in SaleResults :
         LET v == r.e.value
             p == ClaimedPremium(v)
         IN /\ 2 * (100 * p.num - v.analysis.premium_percentage * p.den) <= p.den
            /\ 2 * (v.analysis.premium_percentage * p.den - 100 * p.num) < p.den
            /\ v.analysis.price_category = ClaimedCategory(p)
            /\ v.market_data.floor_tenths = 0 =>
                 /\ v.analysis.premium_percentage = 0
                 /\ v.analysis.price_category = "near_floor"
    /\ Premium(PriceE4("15"), 100) = [num |-> 5000000, den |-> 100000]
    /\ categorize_price(Premium(PriceE4("15"), 100)) = "above_floor"

\* C26 witness: a sale at 4.5 on floor 3 came out with premium 50.00 and
\* above_floor.
C26_SaleAtExactlyFifty ==
    \E r \in SaleResults :
      /\ r.e.value.price = "4.5"
      /\ r.e.value.market_data.floor_tenths = 30
      /\ r.e.value.analysis.premium_percentage = 5000
      /\ r.e.value.analysis.price_category = "above_floor"

\* C26 as stated, on the premium the result carries: the category is
\* premium exactly when premium_percentage is above 50 and above_floor
\* exactly when it is above 0 and at most 50.
C26_CategoryOnReportedPremium ==
    \A r \in SaleResults :
      LET v == r.e.value IN
        /\ (v.analysis.price_category = "premium")
             <=> (v.analysis.premium_percentage > 5000)
        /\ (v.analysis.price_category = "above_floor")
             <=> (v.analysis.premium_percentage > 0
                  /\ v.analysis.premium_percentage <= 5000)

---------------------------------------------------------------------------
(* C27 *)

\* (positive - negative) clamped to -word_count..word_count: the numerator
\* of clamp((positive - negative) / word_count, -1, 1) for sentiment s of a
\* message of word_count words.
ClaimedSentiment(s, word_count) ==
    Clamp(-word_count, word_count, s.positive_words - s.negative_words)

\* value_milli / 1000 is num / den rounded to three decimals.
IsRoundedMilli(value_milli, num, den) ==
    /\ 2 * (1000 * num - value_milli * den) <= den
    /\ 2 * (value_milli * den - 1000 * num) <= den

\* C27 (amended): the sentiment score of a result is
\* clamp((positive_count - negative_count) / word_count, -1, 1) rounded to
\* three decimals; the label is decided on the value before rounding:
\* positive above 0.1, negative below -0.1, neutral otherwise, exactly 0.1
\* included; confidence is min(1, (positive_count + negative_count) /
\* word_count) rounded to three decimals; a message without word tokens or
\* without sentiment words gets score 0 and label neutral.
C27_SentimentOnUnroundedScore ==
    \A r \in ChatResults :
      LET s == r.e.value.analysis.sentiment
          wc == r.e.value.analysis.word_count
          total == s.positive_words + s.negative_words
          d == ClaimedSentiment(s, wc)
      IN /\ (wc = 0 \/ total = 0) =>
              /\ s.score_milli = 0
              /\ s.label = "neutral"
              /\ s.confidence_milli = 0
         /\ total > 0 =>
              /\ wc > 0
              /\ IsRoundedMilli(s.score_milli, d, wc)
              /\ s.label = (IF 10 * d > wc THEN "positive"
                            ELSE IF 10 * d < -wc THEN "negative"
                            ELSE "neutral")
              /\ IsRoundedMilli(s.confidence_milli, Min(total, wc), wc)

\* C27 witness: one positive word in ten came out with score 0.1 and the
\* label neutral.
C27_ExactlyTenthIsNeutral ==
    \E r \in ChatResults :
      LET s == r.e.value.analysis.sentiment IN
        /\ s.positive_words = 1
        /\ s.negative_words = 0
        /\ r.e.value.analysis.word_count = 10
        /\ s.score_milli = 100
        /\ s.label = "neutral"

\* C27 as stated: the score of the result is exactly the clamped quotient,
\* and a result is labelled positive exactly when its score is above 0.1 and
\* negative exactly when it is below -0.1.
C27_SentimentScoreExact ==
    \A r \in ChatResults :
      LET s == r.e.value.analysis.sentiment
          wc == r.e.value.analysis.word_count
      IN /\ s.positive_words + s.negative_words > 0 =>
              s.score_milli * wc = 1000 * ClaimedSentiment(s, wc)
         /\ (s.label = "positive") <=> (s.score_milli > 100)
         /\ (s.label = "negative") <=> (s.score_milli < -100)

---------------------------------------------------------------------------
(* C28 *)

\* The toxicity levels and the spam risk levels in rising order.
LevelRank(level) ==
    CASE level = "none" -> 0
      [] level = "low" -> 1
      [] level = "medium" -> 2
      [] level = "high" -> 3

\* C28: the toxicity score of a result is min(1, toxic_count / word_count *
\* 10) and its spam score min(1, indicator_count / 5), each rounded to three
\* decimals and within 0..1; against every message of the same word count
\* with no more toxic words the toxicity score and level of the result are
\* no lower, and against every message with no more spam indicators its
\* spam score and risk level are no lower.
C28_ScoresRiseWithCount ==
    \A r \in ChatResults :
      LET v == r.e.value
          tox == v.analysis.toxicity
          spam == v.analysis.spam
          wc == Max(1, v.analysis.word_count)
      IN /\ tox.score_milli \in 0..1000
         /\ spam.score_milli \in 0..1000
         /\ IsRoundedMilli(tox.score_milli, Min(10 * tox.toxic_count, wc), wc)
         /\ IsRoundedMilli(spam.score_milli, Min(spam.indicators, 5), 5)
         /\ \A m \in ChatMessages :
              LET f == MessageFeatures(m)
                  other == detect_toxicity(f)
                  other_spam == detect_spam(f)
              IN /\ (Len(f.words) = v.analysis.word_count
                     /\ other.toxic_count <= tox.toxic_count) =>
                       /\ other.score_milli <= tox.score_milli
                       /\ LevelRank(other.level) <= LevelRank(tox.level)
                 /\ other_spam.indicators <= spam.indicators =>
                       /\ other_spam.score_milli <= spam.score_milli
                       /\ LevelRank(other_spam.risk_level)
                            <= LevelRank(spam.risk_level)

\* C28 witness: twenty toxic words in a hundred came out with the capped
\* score 1 and level high, above the results of four and eight in a hundred.
C28_CappedToxicityReturned ==
    \E r \in ChatResults :
      /\ r.e.value.analysis.word_count = 100
      /\ r.e.value.analysis.toxicity.toxic_count = 20
      /\ r.e.value.analysis.toxicity.score_milli = 1000
      /\ r.e.value.analysis.toxicity.level = "high"
      /\ detect_toxicity(MessageFeatures("scam x8, hello x92")).score_milli = 800
      /\ detect_toxicity(MessageFeatures("scam x4, hello x96")).level = "medium"

---------------------------------------------------------------------------
(* C29 *)

\* The length adjustment L of the engagement score for a message of len
\* characters.
ClaimedLengthAdjustment(len) ==
    CASE len >= 50 /\ len <= 200 -> 10
      [] len > 500 -> -10
      [] len < 10 -> -5
      [] OTHER -> 0

\* C29: the engagement score of a result is clamp(50 + L + min(10, 5q) +
\* min(10, 2x) + min(15, 5m) + min(10, 3h) + min(15, 3e), 0, 100) for the q
\* question marks, x exclamation marks, m mentions, h hashtags and e emojis
\* of its message, at most one of the three length cases applies, and the
\* score is within 0..100.
C29_EngagementFormula ==
    \A r \in ChatResults :
      LET v == r.e.value
          f == MessageFeatures(v.message)
          sum == 50 + ClaimedLengthAdjustment(f.len)
                 + Min(10, 5 * f.q) + Min(10, 2 * f.x) + Min(15, 5 * f.mentions)
                 + Min(10, 3 * f.hashtags) + Min(15, 3 * f.emojis)
      IN /\ v.analysis.engagement_score
              = (IF sum > 100 THEN 100 ELSE IF sum < 0 THEN 0 ELSE sum)
         /\ v.analysis.engagement_score \in 0..100
         /\ Cardinality({c \in {1, 2, 3} :
                           \/ c = 1 /\ f.len >= 50 /\ f.len <= 200
                           \/ c = 2 /\ f.len > 500
                           \/ c = 3 /\ f.len < 10}) <= 1

\* C29 witness: a message of 57 characters with every bonus at its cap came
\* out with 100, and one of exactly 200 characters with 60.
C29_CappedAtHundred ==
    \E r \in ChatResults :
      LET f == MessageFeatures(r.e.value.message) IN
        /\ f.len = 57
        /\ f.q = 3 /\ f.x = 6 /\ f.mentions = 4 /\ f.hashtags = 4 /\ f.emojis = 6
        /\ r.e.value.analysis.engagement_score = 100
        /\ calculate_engagement_score(MessageFeatures("ab, a x99")) = 60

---------------------------------------------------------------------------
(* C30 *)

\* The calls of verify_token that found the token's blacklist key: the cache
\* answered and the key had not expired.
RevokedChecks == {k \in DOMAIN verifyLog : verifyLog[k].check = "revoked"}

\* C30: every call of verify_token that finds the token on the blacklist,
\* with the cache reachable and the entry not expired, ends in 401 "Token
\* has been revoked"; no blacklisted token is accepted.
C30_BlacklistedTokenRejected ==
    \A k \in RevokedChecks :
      verifyLog[k].outcome = Unauthorized("Token has been revoked")

\* What the code does instead: no call ever ends in "Token has been
\* revoked", and a call that found the blacklist key ends as jwt.decode and
\* the type check decide, in acceptance while the token has not expired.
C30_RevokedIsSwallowed ==
    \A k \in DOMAIN verifyLog :
      LET e == verifyLog[k] IN
        /\ e.outcome /= Unauthorized("Token has been revoked")
        /\ (e.check = "revoked" /\ e.token.exp >= e.at) => e.outcome = TokenAccepted

\* A blacklisted token was presented, the key was found, and the call
\* accepted it.
C30_BlacklistedTokenAccepted ==
    \E k \in RevokedChecks : verifyLog[k].outcome = TokenAccepted

====
